---- MODULE Spec2Model ----
(***************************************************************************)
(* One connection of the rusty_rpc server (rusty_rpc_lib) together with    *)
(* its clients: the per-connection registry ServerCollection, the entries  *)
(* ServerEntry with their parent guards, the dispatch loop                 *)
(* handle_connection, the handler generated by rusty_rpc_macro for each    *)
(* service type, and the services of the parent_child and tree examples.   *)
(***************************************************************************)
EXTENDS Integers, Sequences, FiniteSets, TLC

\* ------------------------------------------------------------------ bounds
\* Number of packets a client writes on the connection.
MaxRequests == 4
\* Number of operations (method calls and close()) a client makes through
\* its proxies.
MaxCalls == 6
\* Number of request packets that may wait unread in the socket.
MaxInFlight == 1
\* Number of distinct values of the id counter (the code's counter is a u64
\* that wraps around; the model keeps the wrap-around at a small modulus).
IdMod == 4
\* Number of proxy operations the client tasks start.
MaxOps == 3
\* Number of requests served on the second connection.
MaxOther == 2

\* ------------------------------------------------------------- value sets
Ids == 0 .. (IdMod - 1)
\* Identities of the Arc<Mutex<ServerEntry>> allocations made on the
\* connection; at most one per request plus the initial service.
MaxPackets == IF MaxRequests > MaxCalls THEN MaxRequests ELSE MaxCalls
CellIds == 1 .. (MaxPackets + 1)
\* Option::None for a parent guard, and a vacant slot of the map.
NoCell == 0
\* The encoding of the unit tuple () in MethodArgs.
Nil == -1
\* Initial value of ParentServer.
ParentDefault == 123

RootTypes == {"ParentService", "TreeService"}
\* A service of a user of the library whose method body may fail: every
\* method of a generated service trait returns io::Result.
UserTypes == {"FallibleService"}

\* Argument payloads a client that writes raw packets may put in CallMethod:
\* the encoding of the unit tuple (Nil) or of one i32.
RawArgs == {Nil, 0}
\* i32 arguments used by the generated client proxies.
ProxyArgs == {0, 1, 456, 789}

\* The services of the two examples, as the macro sees them: the methods of
\* a service are kept in a BTreeMap keyed by method name, so enumerate()
\* numbers them in the order of their names.
Interface(t) ==
    CASE t = "ParentService" ->
           << [name |-> "child", param |-> "unit", ret |-> "ChildService"],
              [name |-> "get", param |-> "unit", ret |-> "i32"] >>
      [] t = "ChildService" ->
           << [name |-> "set", param |-> "i32", ret |-> "i32"] >>
      [] t = "TreeService" ->
           << [name |-> "root", param |-> "unit", ret |-> "NodeService"] >>
      [] t = "NodeService" ->
           << [name |-> "get_value", param |-> "unit", ret |-> "i32"],
              [name |-> "nth_child", param |-> "i32", ret |-> "NodeService"] >>
      [] t = "FallibleService" ->
           << [name |-> "run", param |-> "unit", ret |-> "i32"] >>
      [] OTHER -> << >>

\* The method ids a client that writes raw packets tries: id 1 is out of
\* range for ChildService and TreeService.
MethodIds == {0, 1}

\* The tree served by TreeServer::default(): node 0 with the leaves 1 and 2;
\* the value of node k is k.
TreeChildren(k) == IF k = 0 THEN << 1, 2 >> ELSE << >>

\* ---------------------------------------------------------------- messages
DropService(sid) == [tag |-> "DropService", sid |-> sid, mid |-> 0, args |-> Nil]
CallMethod(sid, mid, args) == [tag |-> "CallMethod", sid |-> sid, mid |-> mid, args |-> args]
\* A packet whose bytes do not decode to a ClientMessage.
MalformedPacket == [tag |-> "Malformed", sid |-> 0, mid |-> 0, args |-> Nil]
NoMessage == [tag |-> "None", sid |-> 0, mid |-> 0, args |-> Nil]

DropServiceDone == [tag |-> "DropServiceDone", kind |-> "None", val |-> 0]
MethodReturnedData(v) == [tag |-> "MethodReturned", kind |-> "Data", val |-> v]
MethodReturnedService(sid) == [tag |-> "MethodReturned", kind |-> "Service", val |-> sid]
NoReply == [tag |-> "None", kind |-> "None", val |-> 0]

RawPackets ==
    {DropService(s) : s \in Ids}
      \cup {CallMethod(s, m, a) : s \in Ids, m \in MethodIds, a \in RawArgs}
      \cup {MalformedPacket}

\* ------------------------------------------------------------------- state
VARIABLES
    phase,            \* "accepted", "running", "teardown", "ended", "aborted"
    pc,               \* position of handle_connection's loop
    cur,              \* the request being served
    out,              \* message_to_send
    toServer,         \* packets written by the client, not yet read
    toClient,         \* packets written by the server, not yet read
    clientClosed,     \* the client has shut down its side of the stream
    active_services,  \* ServerCollection.active_services: id -> cell
    next_service_id,  \* ServerCollection.next_service_id
    index_lock,       \* the Mutex around active_services is locked
    cells,            \* every Arc<Mutex<ServerEntry>> ever allocated
    nextCell,         \* number of cells allocated so far
    rootType,         \* the type T of start_server::<T>
    panicking,        \* std::thread::panicking() during teardown
    result,           \* how the connection task ended
    failure,          \* why the connection was terminated
    nSent,            \* number of packets the client has written
    recvLog,          \* the requests read, in order
    sentLog,          \* the replies written, each with the request it answers
    invoked,          \* the cell whose user method served the current request
    lastDrop,         \* the entry destroyed by the latest DropService
    proxies,          \* the client's service proxies
    nProxies,         \* number of proxies created so far
    waiting,          \* the proxy operation that holds the channel lock
    clientLog,        \* what the proxy operations returned to their caller
    tasks,            \* the client tasks that use proxies concurrently
    stream_sink,      \* the task that holds the lock of the client's channel
    wireLog,          \* the packets the tasks wrote, each with its proxy
    conn2,            \* a second connection accepted by the same server
    listening,        \* start_server's accept loop is running
    codec,            \* one message on its way through the wire codec
    expansion,        \* one service definition on its way through the macro
    collection,       \* a ServerCollection used on its own
    parser            \* one interface file on its way through the parser

vars == << phase, pc, cur, out, toServer, toClient, clientClosed,
           active_services, next_service_id, index_lock, cells, nextCell, rootType,
           panicking, result, failure, nSent, recvLog, sentLog, invoked,
           lastDrop, proxies, nProxies, waiting, clientLog, tasks,
           stream_sink, wireLog, conn2, listening, codec, expansion,
           collection, parser >>

serverVars == << phase, pc, cur, out, active_services, next_service_id,
                 index_lock, cells,
                 nextCell, panicking, result, failure, recvLog, sentLog,
                 invoked, lastDrop >>

clientVars == << proxies, nProxies, waiting, clientLog >>

taskVars == << tasks, stream_sink, wireLog >>

processVars == << conn2, listening >>

unitVars == << codec, expansion, collection, parser >>

\* Nobody holds the lock of the client's channel.
Idle == [op |-> "none", proxy |-> 0, name |-> "none", arg |-> Nil]

\* The tasks of the client program; proxies are Send, so any task may use
\* any proxy that is not borrowed.
TaskIds == {1, 2}

\* A task that is not inside a proxy operation.
IdleTask ==
    [st |-> "idle", op |-> "none", proxy |-> 0, name |-> "none", arg |-> Nil,
     seq |-> 0]

\* A cell that has not been allocated.
UnusedCell ==
    [st |-> "unused", locked |-> FALSE, parent_guard |-> NoCell,
     type |-> "none", val |-> 0, ref |-> NoCell]

\* --------------------------------------------------------- ServerCollection
\* ServerCollection::new(): an empty map and the counter at 0.
NewActiveServices == [i \in Ids |-> NoCell]
NewNextServiceId == 0

\* fetch_add(1) on the counter, wrapping around on overflow.
get_and_increment_next_service_id(n) == (n + 1) % IdMod

\* The loop of register_service: the first id, from the counter on, whose map
\* slot is vacant. tries counts the iterations; when every id is occupied the
\* loop of the code never ends, which ProbeId reports as -1.
RECURSIVE ProbeId(_, _, _)
ProbeId(map, n, tries) ==
    IF tries = IdMod THEN -1
    ELSE IF map[n] = NoCell THEN n
    ELSE ProbeId(map, get_and_increment_next_service_id(n), tries + 1)

\* The counter incremented before it is read (add_fetch for fetch_add).
register_service_id_preincrement(map, n) ==
    ProbeId(map, get_and_increment_next_service_id(n), 0)

\* The counter's value taken whether or not the map has that id.
register_service_id_noskip(map, n) == n

\* The search for a vacant id started at 0 instead of at the counter.
register_service_id_restart(map, n) == ProbeId(map, 0, 0)

\* register_service(service, parent_guard): the id chosen for the new entry.
register_service_id(map, n) == ProbeId(map, n, 0)

\* get_service_entry_arc / the lookup half of remove_service_entry_arc.
get_service_entry_arc(map, sid) == map[sid]

\* remove_service_entry_arc: the map without sid.
remove_service_entry_arc(map, sid) == [map EXCEPT ![sid] = NoCell]

\* active_services.try_lock(): it succeeds iff no guard on the map is alive.
IndexTryLock(held) == ~held

\* The guard kept alive after the function that took it has returned.
IndexGuardDropped_leak(held) == TRUE

\* The guard `locked` is a local of register_service (of one turn of its
\* loop), of get_service_entry_arc and of remove_service_entry_arc: it is
\* dropped when the function returns, and none of them awaits.
IndexGuardDropped(held) == FALSE

\* How a sequence of calls to the registry's functions leaves the lock of
\* the map: at is the position of the call whose try_lock() failed (its
\* expect() panics), 0 when every call got the lock.
RECURSIVE IndexLockAfter(_, _, _)
IndexLockAfter(held, calls, at) ==
    IF calls = << >>
    THEN [held |-> held, at |-> 0]
    ELSE IF ~IndexTryLock(held)
    THEN [held |-> held, at |-> at]
    ELSE IndexLockAfter(IndexGuardDropped(TRUE), Tail(calls), at + 1)

RegisteredCells(map) == {map[i] : i \in Ids} \ {NoCell}

\* Number of Arc handles to cell c: the map's, and none else between two
\* requests (the clone made by CallMethod is dropped at the end of its arm).
StrongCount(map, c) == Cardinality({i \in Ids : map[i] = c})

\* --------------------------------------------------------------- ServerEntry
\* try_lock replaced by a lock that is granted whatever the cell's state.
TryLock_always(cs, c) == TRUE

\* Mutex::try_lock on the entry's cell: it succeeds iff no guard is out.
TryLock(cs, c) == ~cs[c].locked

\* The cell with its lock taken (the guard is leaked into a Box).
LockCell(cs, c) == [cs EXCEPT ![c].locked = TRUE]

\* The guard forgotten instead of dropped: the permit is never returned.
ReleaseGuard_forget(cs, p) == cs

\* drop(Box::from_raw(guard)): MutexGuard::drop returns the permit of cell p.
ReleaseGuard(cs, p) == [cs EXCEPT ![p].locked = FALSE]

\* The entry forgotten (mem::forget) instead of dropped.
FreeCell_forget(cs, c) == cs

\* The memory of cell c is given back: the Mutex and the user's server object
\* in it are gone. The record keeps which parent the entry was created from.
FreeCell(cs, c) ==
    [cs EXCEPT ![c].st = "freed", ![c].locked = FALSE, ![c].val = 0]

\* Drop for ServerEntry, followed by the drop of its fields. When the thread
\* is not panicking the parent guard is released. A guard over a parent whose
\* cell is already freed is a dangling reference: releasing it is undefined
\* behaviour, which either goes unnoticed or kills the process.
DropServerEntry(cs, c, isPanicking) ==
    LET p == cs[c].parent_guard
        gone == FreeCell(cs, c)
    IN  IF isPanicking \/ p = NoCell
        THEN {[cells |-> gone, abort |-> FALSE]}
        ELSE IF cs[p].st = "live"
        THEN {[cells |-> ReleaseGuard(gone, p), abort |-> FALSE]}
        ELSE {[cells |-> gone, abort |-> b] : b \in BOOLEAN}

\* A freshly allocated entry: ServerEntry { server_, parent_guard } in a new
\* unlocked Mutex.
NewEntry(server, guard) ==
    [st |-> "live", locked |-> FALSE, parent_guard |-> guard,
     type |-> server.type, val |-> server.val, ref |-> server.ref]

\* T::default() of the two example servers.
DefaultServer(t) ==
    IF t = "ParentService"
    THEN [type |-> t, val |-> ParentDefault, ref |-> NoCell]
    ELSE [type |-> t, val |-> 0, ref |-> NoCell]

\* ------------------------------------------------- the example user methods
\* The values a read through a dangling reference may produce.
NodeValues == {0, 1, 2}

\* One call of a user method on the server object in cell c. The result is
\* the set of possible outcomes: "ok" with the returned value (ret) or the
\* returned local service (server), "err" for Err(e), "panic", or "abort" when undefined
\* behaviour kills the process. ChildServer and NodeServer borrow from the
\* cell ref; once that cell is freed the borrow dangles.
UserOk(cs, v) == [st |-> "ok", cells |-> cs, ret |-> v,
                  server |-> [type |-> "none", val |-> 0, ref |-> NoCell]]
UserService(cs, srv) == [st |-> "ok", cells |-> cs, ret |-> 0, server |-> srv]
UserStop(cs, how) == [st |-> how, cells |-> cs, ret |-> 0,
                      server |-> [type |-> "none", val |-> 0, ref |-> NoCell]]

UserMethod(cs, c, name, arg) ==
    LET owner == cs[c].ref
        dangling == owner # NoCell /\ cs[owner].st # "live"
    IN  CASE name = "get" -> {UserOk(cs, cs[c].val)}
          [] name = "child" ->
               {UserService(cs, [type |-> "ChildService", val |-> 0, ref |-> c])}
          [] name = "set" ->
               IF dangling
               THEN {UserOk(cs, arg), UserStop(cs, "abort")}
               ELSE {UserOk([cs EXCEPT ![owner].val = arg], arg)}
          [] name = "root" ->
               {UserService(cs, [type |-> "NodeService", val |-> 0, ref |-> c])}
          [] name = "get_value" ->
               IF dangling
               THEN {UserOk(cs, v) : v \in NodeValues} \cup {UserStop(cs, "abort")}
               ELSE {UserOk(cs, cs[c].val)}
          [] name = "nth_child" ->
               LET kids == TreeChildren(cs[c].val)
                   step == IF arg >= 0 /\ arg < Len(kids)
                           THEN {UserService(cs, [type |-> "NodeService",
                                                  val |-> kids[arg + 1],
                                                  ref |-> owner])}
                           ELSE {UserStop(cs, "panic")}
               IN  IF dangling THEN step \cup {UserStop(cs, "abort")} ELSE step
          [] name = "run" -> {UserOk(cs, 0), UserStop(cs, "err")}
          [] OTHER -> {UserStop(cs, "panic")}

\* ------------------------------------------- one request of handle_connection
\* What serving one request does to the registry: the new map, counter and
\* cells, the reply (out), the cell whose user method ran (invoked), and how
\* the loop goes on (end): "none" to send the reply, "err" for a returned
\* io::Error, "panic", "abort" when undefined behaviour kills the process,
\* "spin" when register_service never returns.
Outcome(map, n, cs, k, reply, inv, end, why, drop) ==
    [map |-> map, next |-> n, cells |-> cs, nextCell |-> k, out |-> reply,
     invoked |-> inv, end |-> end, failure |-> why, lastDrop |-> drop]

NoDrop == [cell |-> NoCell, parent |-> NoCell]

\* Arc::try_unwrap on the handle taken out of the map: it succeeds iff no
\* other handle to the cell is left.
ArcTryUnwrap(map, c) == StrongCount(map, c) = 0

\* DropService of an id that is not registered taken as done already: the
\* loop goes on to send, with no message made.
HandleDropService_lenient(map, n, cs, k, sid) ==
    LET c == get_service_entry_arc(map, sid)
        rest == remove_service_entry_arc(map, sid)
        drop == [cell |-> c, parent |-> cs[c].parent_guard]
    IN  IF c = NoCell
        THEN {Outcome(map, n, cs, k, NoReply, NoCell, "none", "none", NoDrop)}
        ELSE {Outcome(rest, n, d.cells, k, DropServiceDone, NoCell, "none", "none", drop)
              : d \in DropServerEntry(cs, c, FALSE)}

\* The arm ClientMessage::DropService(service_id).
HandleDropService(map, n, cs, k, sid) ==
    LET c == get_service_entry_arc(map, sid)
        rest == remove_service_entry_arc(map, sid)
        drop == [cell |-> c, parent |-> cs[c].parent_guard]
    IN  IF c = NoCell
        THEN {Outcome(map, n, cs, k, NoReply, NoCell, "err", "UnknownService", NoDrop)}
        ELSE IF ~ArcTryUnwrap(rest, c)
        THEN {Outcome(rest, n, cs, k, NoReply, NoCell, "panic", "StillInUse", NoDrop)}
        ELSE {IF d.abort
              THEN Outcome(rest, n, d.cells, k, NoReply, NoCell, "abort", "Undefined", drop)
              ELSE Outcome(rest, n, d.cells, k, DropServiceDone, NoCell, "none", "none", drop)
              : d \in DropServerEntry(cs, c, FALSE)}

\* Whether the argument bytes deserialize to the parameter tuple of method m.
ArgsDecode(m, args) ==
    \/ m.param = "unit" /\ args = Nil
    \/ m.param = "i32" /\ args # Nil

\* The tail of a generated handler branch, after the user method returned
\* Ok: a data-returning method releases self_guard and answers Data; a
\* service-returning method registers the returned service with self_guard
\* as its parent guard and answers Service(id).
SerializeReturn(map, n, k, c, m, u) ==
    IF m.ret = "i32"
    THEN Outcome(map, n, ReleaseGuard(u.cells, c), k,
                 MethodReturnedData(u.ret), c, "none", "none", NoDrop)
    ELSE LET id == register_service_id(map, n)
         IN  IF id = -1
             THEN Outcome(map, n, u.cells, k, NoReply, c, "spin", "none", NoDrop)
             ELSE Outcome([map EXCEPT ![id] = k + 1],
                          get_and_increment_next_service_id(id),
                          [u.cells EXCEPT ![k + 1] = NewEntry(u.server, c)],
                          k + 1, MethodReturnedService(id), c, "none", "none", NoDrop)

\* An if-chain whose last branch is taken without a test of the id.
BranchOf_last(methods, mid) ==
    IF mid < Len(methods) THEN mid + 1 ELSE Len(methods)

\* The chain `if method_id.0 == 0 {..} else if method_id.0 == 1 {..} ..
\* else { panic!("Client sent invalid method_id.") }` of the generated
\* handler: the position of the branch taken, 0 for the final else.
BranchOf(methods, mid) ==
    IF mid < Len(methods) THEN mid + 1 ELSE 0

\* _rusty_rpc_forward__parse_and_call_method_locally for the service in cell
\* c, entered with the cell's lock held.
ParseAndCallMethodLocally(map, n, cs, k, c, mid, args) ==
    LET methods == Interface(cs[c].type)
        b == BranchOf(methods, mid)
    IN  IF b = 0
        THEN {Outcome(map, n, cs, k, NoReply, NoCell, "panic", "InvalidMethodId", NoDrop)}
        ELSE IF ~ArgsDecode(methods[b], args)
        THEN {Outcome(map, n, cs, k, NoReply, NoCell, "panic", "MalformedArgs", NoDrop)}
        ELSE {CASE u.st = "panic" ->
                     Outcome(map, n, u.cells, k, NoReply, c, "panic", "UserPanic", NoDrop)
                [] u.st = "abort" ->
                     Outcome(map, n, u.cells, k, NoReply, c, "abort", "Undefined", NoDrop)
                [] u.st = "err" ->
                     Outcome(map, n, u.cells, k, NoReply, c, "panic", "UserFailure", NoDrop)
                [] OTHER -> SerializeReturn(map, n, k, c, methods[b], u)
              : u \in UserMethod(cs, c, methods[b].name, args)}

\* The arm ClientMessage::CallMethod(service_id, method_id, method_args).
HandleCallMethod(map, n, cs, k, sid, mid, args) ==
    LET c == get_service_entry_arc(map, sid)
    IN  IF c = NoCell
        THEN {Outcome(map, n, cs, k, NoReply, NoCell, "err", "UnknownService", NoDrop)}
        ELSE IF ~TryLock(cs, c)
        THEN {Outcome(map, n, cs, k, NoReply, NoCell, "panic", "ServiceBusy", NoDrop)}
        ELSE ParseAndCallMethodLocally(map, n, LockCell(cs, c), k, c, mid, args)

\* The registry functions the arm for msg calls on its way to outcome o:
\* remove_service_entry_arc for DropService; get_service_entry_arc for
\* CallMethod, and register_service once the user method has returned a
\* service.
IndexCalls(msg, o) ==
    IF msg.tag = "DropService"
    THEN << "remove_service_entry_arc" >>
    ELSE << "get_service_entry_arc" >>
           \o (IF o.out.kind = "Service" \/ o.end = "spin"
               THEN << "register_service" >>
               ELSE << >>)

HandleRequest(map, n, cs, k, msg) ==
    IF msg.tag = "DropService"
    THEN HandleDropService(map, n, cs, k, msg.sid)
    ELSE HandleCallMethod(map, n, cs, k, msg.sid, msg.mid, msg.args)

\* A connection that start_server has not accepted yet.
NoConnection ==
    [phase |-> "none", map |-> NewActiveServices, next |-> NewNextServiceId,
     cells |-> [c \in CellIds |-> UnusedCell], nextCell |-> 0,
     replies |-> << >>, served |-> 0, result |-> "none"]

\* No message is in the codec, no service definition in the macro, and no
\* ServerCollection is in use apart from the connection's.
NoCodec ==
    [stage |-> "idle", side |-> "none", msg |-> NoMessage, bytes |-> << >>,
     result |-> [ok |-> FALSE, msg |-> NoMessage]]
NoExpansion ==
    [stage |-> "idle", decl |-> << >>, methods |-> {}, stub |-> << >>,
     handler |-> << >>]
NoCollection ==
    [stage |-> "idle", active_services |-> NewActiveServices,
     next_service_id |-> NewNextServiceId, registered |-> 0, op |-> "none",
     id |-> 0, from |-> 0, after |-> -1, since |-> [i \in Ids |-> -1],
     seen |-> [i \in Ids |-> {}]]

\* No interface file is being parsed.
NoParser ==
    [stage |-> "idle", doc |-> << >>, items |-> 0, input |-> << >>,
     tail |-> << >>, result |-> [ok |-> FALSE, rest |-> << >>, val |-> << >>]]

\* ----------------------------------------------------------------- actions
\* The state of a server that has just accepted a connection, and of its
\* client.
InitConnection(types) ==
    /\ phase = "accepted"
    /\ pc = "start"
    /\ cur = NoMessage
    /\ out = NoReply
    /\ toServer = << >>
    /\ toClient = << >>
    /\ clientClosed = FALSE
    /\ active_services = NewActiveServices
    /\ next_service_id = NewNextServiceId
    /\ index_lock = FALSE
    /\ cells = [c \in CellIds |-> UnusedCell]
    /\ nextCell = 0
    /\ rootType \in types
    /\ panicking = FALSE
    /\ result = "none"
    /\ failure = "none"
    /\ nSent = 0
    /\ recvLog = << >>
    /\ sentLog = << >>
    /\ invoked = NoCell
    /\ lastDrop = NoDrop
    /\ proxies = << >>
    /\ nProxies = 0
    /\ waiting = Idle
    /\ clientLog = << >>
    /\ tasks = [t \in TaskIds |-> IdleTask]
    /\ stream_sink = 0
    /\ wireLog = << >>
    /\ conn2 = NoConnection
    /\ listening = TRUE

InitOf(types) ==
    /\ InitConnection(types)
    /\ codec = NoCodec
    /\ expansion = NoExpansion
    /\ collection = NoCollection
    /\ parser = NoParser

\* start_server::<T> for the servers of the examples.
Init == InitOf(RootTypes)

\* start_server::<T> for a server whose method may return Err.
InitUser == InitOf(UserTypes)

\* How handle_connection and the task around it end: the socket is dropped
\* with what was not read from it, and the ServerCollection is dropped next,
\* during unwinding when the end is a panic.
Terminate(how, why) ==
    /\ phase' = "teardown"
    /\ toServer' = << >>
    /\ pc' = "done"
    /\ result' = how
    /\ failure' = why
    /\ panicking' = (how = "panic")

\* handle_connection up to its loop: the initial service T::default() is
\* registered without a parent guard, and its id is asserted to be 0.
AcceptConnection ==
    /\ phase = "accepted"
    /\ LET id == register_service_id(active_services, next_service_id)
           l == IndexLockAfter(index_lock, << "register_service" >>, 1)
       IN  /\ active_services' = [active_services EXCEPT ![id] = nextCell + 1]
           /\ next_service_id' = get_and_increment_next_service_id(id)
           /\ index_lock' = l.held
           /\ cells' = [cells EXCEPT ![nextCell + 1] =
                            NewEntry(DefaultServer(rootType), NoCell)]
           /\ nextCell' = nextCell + 1
           /\ IF id = 0
              THEN /\ phase' = "running"
                   /\ pc' = "read"
                   /\ UNCHANGED << result, failure, panicking, toServer >>
              ELSE Terminate("panic", "InitialIdNotZero")
    /\ UNCHANGED << cur, out, toClient, clientClosed, rootType, nSent,
                    recvLog, sentLog, invoked, lastDrop, clientVars, taskVars,
                    processVars, unitVars >>

\* bytes_stream_sink.next() yields a packet, which is decoded at once.
ReadRequest ==
    /\ phase = "running" /\ pc = "read"
    /\ toServer # << >>
    /\ invoked' = NoCell
    /\ IF Head(toServer).tag = "Malformed"
       THEN /\ Terminate("err", "Malformed")
            /\ UNCHANGED << cur, recvLog >>
       ELSE /\ toServer' = Tail(toServer)
            /\ cur' = Head(toServer)
            /\ recvLog' = Append(recvLog, Head(toServer))
            /\ pc' = "dispatch"
            /\ UNCHANGED << phase, result, failure, panicking >>
    /\ UNCHANGED << out, toClient, clientClosed, active_services, next_service_id, index_lock,
                    cells, nextCell, rootType, nSent, sentLog, lastDrop, clientVars, taskVars,
                    processVars, unitVars >>

\* bytes_stream_sink.next() yields None: the loop ends and Ok(()) is returned.
ReadEndOfStream ==
    /\ phase = "running" /\ pc = "read"
    /\ toServer = << >> /\ clientClosed
    /\ Terminate("ok", "none")
    /\ UNCHANGED << cur, out, toClient, clientClosed, active_services,
                    next_service_id, index_lock, cells, nextCell, rootType, nSent, recvLog,
                    sentLog, invoked, lastDrop, clientVars, taskVars,
                    processVars, unitVars >>

\* bytes_stream_sink.next() yields an I/O error, or send() fails.
IoError ==
    /\ phase = "running" /\ pc \in {"read", "send"}
    /\ Terminate("err", "Io")
    /\ UNCHANGED << cur, out, toClient, clientClosed, active_services,
                    next_service_id, index_lock, cells, nextCell, rootType, nSent, recvLog,
                    sentLog, invoked, lastDrop, clientVars, taskVars,
                    processVars, unitVars >>

\* The connection task is cancelled at one of its suspension points.
Cancel ==
    /\ phase = "running" /\ pc \in {"read", "send"}
    /\ Terminate("cancelled", "none")
    /\ UNCHANGED << cur, out, toClient, clientClosed, active_services,
                    next_service_id, index_lock, cells, nextCell, rootType, nSent, recvLog,
                    sentLog, invoked, lastDrop, clientVars, taskVars,
                    processVars, unitVars >>

\* What is left of the handler's outcome h when the call at position at of
\* its registry calls panics in expect(): a first call that fails has done
\* nothing yet; register_service failing after the user method ran leaves
\* the method's effects and the lock of the called service, and inserts
\* nothing.
IndexLockFailed(at, h) ==
    CASE at = 0 -> h
      [] at = 1 -> Outcome(active_services, next_service_id, cells, nextCell,
                           NoReply, NoCell, "panic", "IndexLockFailed", NoDrop)
      [] OTHER -> Outcome(active_services, next_service_id,
                          [c \in DOMAIN cells |->
                             IF c > nextCell THEN cells[c] ELSE h.cells[c]],
                          nextCell, NoReply, h.invoked, "panic",
                          "IndexLockFailed", NoDrop)

\* The match on client_message, up to message_to_send.
Dispatch ==
    /\ phase = "running" /\ pc = "dispatch"
    /\ \E h \in HandleRequest(active_services, next_service_id, cells, nextCell, cur) :
         LET l == IndexLockAfter(index_lock, IndexCalls(cur, h), 1)
             o == IndexLockFailed(l.at, h)
         IN
         /\ active_services' = o.map
         /\ next_service_id' = o.next
         /\ index_lock' = l.held
         /\ cells' = o.cells
         /\ nextCell' = o.nextCell
         /\ out' = o.out
         /\ invoked' = o.invoked
         /\ lastDrop' = IF cur.tag = "DropService" THEN o.lastDrop ELSE lastDrop
         /\ CASE o.end = "none" ->
                   /\ pc' = "send"
                   /\ UNCHANGED << phase, result, failure, panicking, toServer >>
              [] o.end = "spin" ->
                   /\ pc' = "spin"
                   /\ UNCHANGED << phase, result, failure, panicking, toServer >>
              [] o.end = "abort" ->
                   /\ phase' = "aborted"
                   /\ pc' = "done"
                   /\ result' = "abort"
                   /\ failure' = o.failure
                   /\ toServer' = << >>
                   /\ UNCHANGED panicking
              [] OTHER -> Terminate(o.end, o.failure)
    /\ UNCHANGED << cur, toClient, clientClosed, rootType, nSent,
                    recvLog, sentLog, clientVars, taskVars,
                    processVars, unitVars >>

\* bytes_stream_sink.send(message_to_send).
SendReply ==
    /\ phase = "running" /\ pc = "send"
    /\ toClient' = Append(toClient, out)
    /\ sentLog' = Append(sentLog, [msg |-> out, req |-> Len(recvLog)])
    /\ out' = NoReply
    /\ pc' = "read"
    /\ UNCHANGED << phase, cur, toServer, clientClosed, active_services,
                    next_service_id, index_lock, cells, nextCell, rootType, panicking, result,
                    failure, nSent, recvLog, invoked, lastDrop, clientVars, taskVars,
                    processVars, unitVars >>

\* The drop of the ServerCollection: the HashMap drops its entries one by one
\* in the order of its buckets, which the hasher's random keys decide.
TeardownStep ==
    /\ phase = "teardown"
    /\ \E sid \in Ids :
         /\ active_services[sid] # NoCell
         /\ active_services' = remove_service_entry_arc(active_services, sid)
         /\ \E d \in DropServerEntry(cells, active_services[sid], panicking) :
              /\ cells' = d.cells
              /\ IF d.abort
                 THEN /\ phase' = "aborted"
                      /\ result' = "abort"
                      /\ failure' = "Undefined"
                 ELSE UNCHANGED << phase, result, failure >>
    /\ UNCHANGED << pc, cur, out, toServer, toClient, clientClosed,
                    next_service_id, index_lock, nextCell, rootType, panicking, nSent,
                    recvLog, sentLog, invoked, lastDrop, clientVars, taskVars,
                    processVars, unitVars >>

\* The map is empty: the connection task is over.
TeardownDone ==
    /\ phase = "teardown"
    /\ RegisteredCells(active_services) = {}
    /\ phase' = "ended"
    /\ UNCHANGED << pc, cur, out, toServer, toClient, clientClosed,
                    active_services, next_service_id, index_lock, cells, nextCell, rootType,
                    panicking, result, failure, nSent, recvLog, sentLog, invoked,
                    lastDrop, clientVars, taskVars,
                    processVars, unitVars >>

\* ------------------------------------------------ a client writing raw packets
RawSend ==
    /\ phase \in {"accepted", "running"}
    /\ ~clientClosed
    /\ nSent < MaxRequests
    /\ Len(toServer) < MaxInFlight
    /\ \E m \in RawPackets : toServer' = Append(toServer, m)
    /\ nSent' = nSent + 1
    /\ UNCHANGED << serverVars, toClient, clientClosed, rootType, clientVars, taskVars,
                    processVars, unitVars >>

RawClose ==
    /\ phase \in {"accepted", "running"}
    /\ ~clientClosed
    /\ clientClosed' = TRUE
    /\ UNCHANGED << serverVars, toServer, toClient, rootType, nSent, clientVars, taskVars,
                    processVars, unitVars >>

ServerNext ==
    \/ AcceptConnection
    \/ ReadRequest
    \/ ReadEndOfStream
    \/ IoError
    \/ Cancel
    \/ Dispatch
    \/ SendReply
    \/ TeardownStep
    \/ TeardownDone

Next ==
    \/ ServerNext
    \/ RawSend
    \/ RawClose

Spec == Init /\ [][Next]_vars

\* The same connection, serving the fallible service.
SpecUser == InitUser /\ [][Next]_vars

\* --------------------------------------------- the server and two connections
\* The requests of the client of the second connection, which follows the
\* proxy discipline: a call on the initial service, calls on the service it
\* returned, and the close of that service.
OtherPackets ==
    {CallMethod(0, 0, Nil), CallMethod(1, 0, Nil), CallMethod(1, 0, 0),
     DropService(1)}

\* start_server's loop accepts a second socket and spawns its task, which
\* registers T::default() in a ServerCollection of its own.
AcceptOther ==
    /\ listening
    /\ conn2.phase = "none"
    /\ LET id == register_service_id(conn2.map, conn2.next)
       IN  conn2' = [conn2 EXCEPT
               !.phase = "running",
               !.map = [conn2.map EXCEPT ![id] = 1],
               !.next = get_and_increment_next_service_id(id),
               !.cells = [conn2.cells EXCEPT ![1] =
                              NewEntry(DefaultServer(rootType), NoCell)],
               !.nextCell = 1]
    /\ UNCHANGED << serverVars, toServer, toClient, clientClosed, rootType,
                    nSent, clientVars, taskVars, listening, unitVars >>

\* One turn of handle_connection's loop on the second connection: a request
\* is read, served and answered.
ServeOther ==
    /\ conn2.phase = "running"
    /\ conn2.served < MaxOther
    /\ \E m \in OtherPackets :
         \E o \in HandleRequest(conn2.map, conn2.next, conn2.cells,
                                conn2.nextCell, m) :
            /\ o.end = "none"
            /\ conn2' = [conn2 EXCEPT
                   !.map = o.map, !.next = o.next, !.cells = o.cells,
                   !.nextCell = o.nextCell,
                   !.replies = Append(conn2.replies, o.out),
                   !.served = conn2.served + 1]
    /\ UNCHANGED << serverVars, toServer, toClient, clientClosed, rootType,
                    nSent, clientVars, taskVars, listening, unitVars >>

\* Undefined behaviour in the task of the first connection has killed the
\* process: every other task and the accept loop go with it.
ProcessAbort ==
    /\ phase = "aborted"
    /\ listening
    /\ listening' = FALSE
    /\ conn2' = [conn2 EXCEPT !.phase = "killed", !.result = "abort"]
    /\ UNCHANGED << serverVars, toServer, toClient, clientClosed, rootType,
                    nSent, clientVars, taskVars, unitVars >>

NextServer ==
    \/ Next
    \/ AcceptOther
    \/ ServeOther
    \/ ProcessAbort

SpecServer == Init /\ [][NextServer]_vars

\* ------------------------------------------- a client using generated proxies
\* A proxy made for the initial id whatever id the reply carried.
NewProxy_initial(sid, type, parent) ==
    [service_id |-> 0, type |-> type, is_closed |-> FALSE, parent |-> parent,
     dropped |-> FALSE, owner |-> 1]

\* from_service_id: a proxy bound to sid, not closed. parent is the proxy
\* whose method returned it (0 for the initial proxy): the returned
\* ServiceRefMut borrows that proxy mutably.
NewProxy(sid, type, parent) ==
    [service_id |-> sid, type |-> type, is_closed |-> FALSE, parent |-> parent,
     dropped |-> FALSE, owner |-> 1]

\* The MethodId the stub of the k-th method of the service puts on the wire:
\* its index in enumerate() over the service's methods.
StubMethodId(k) == k - 1

\* A method's argument tuple as the stub serializes it.
StubArgs(m) == IF m.param = "unit" THEN {Nil} ELSE ProxyArgs

\* The proxy discipline: a proxy is used only while it is not closed and has
\* no unclosed child proxy.
Usable(p) ==
    /\ p \in 1 .. nProxies
    /\ ~proxies[p].is_closed
    /\ \A q \in 1 .. nProxies : proxies[q].parent = p => proxies[q].is_closed

ClientAlive == waiting.op = "none" /\ nSent < MaxCalls /\ ~clientClosed

LogEntry(p, name, arg, status, val, made) ==
    [proxy |-> p, name |-> name, arg |-> arg, status |-> status,
     val |-> val, made |-> made]

\* start_client: the initial proxy for ServiceId(0), made without any
\* exchange on the connection.
StartClient ==
    /\ nProxies = 0
    /\ proxies' = << NewProxy(0, rootType, 0) >>
    /\ nProxies' = 1
    /\ UNCHANGED << serverVars, toServer, toClient, clientClosed, rootType,
                    nSent, waiting, clientLog,
                    taskVars, processVars, unitVars >>

\* A generated proxy method up to its send: the arguments are serialized,
\* the channel lock is taken and CallMethod is written.
ProxyCall ==
    /\ ClientAlive
    /\ \E p \in 1 .. nProxies :
         /\ Usable(p)
         /\ \E k \in 1 .. Len(Interface(proxies[p].type)) :
              \E a \in StubArgs(Interface(proxies[p].type)[k]) :
                 /\ toServer' = IF phase \in {"accepted", "running"}
                                THEN Append(toServer,
                                            CallMethod(proxies[p].service_id,
                                                       StubMethodId(k), a))
                                ELSE toServer
                 /\ waiting' = [op |-> "call", proxy |-> p,
                                name |-> Interface(proxies[p].type)[k].name,
                                arg |-> a]
    /\ nSent' = nSent + 1
    /\ UNCHANGED << serverVars, toClient, clientClosed, rootType, proxies,
                    nProxies, clientLog,
                    taskVars, processVars, unitVars >>

\* The return type of the method a call is waiting for.
WaitingRet ==
    LET ms == Interface(proxies[waiting.proxy].type)
        k == CHOOSE i \in 1 .. Len(ms) : ms[i].name = waiting.name
    IN  ms[k].ret

\* The rest of a generated proxy method: the next server message is taken
\* from the channel and turned into the method's return value.
ProxyCallReturn ==
    /\ waiting.op = "call"
    /\ toClient # << >>
    /\ toClient' = Tail(toClient)
    /\ LET msg == Head(toClient)
           p == waiting.proxy
       IN  IF msg.tag = "MethodReturned" /\ msg.kind = "Data" /\ WaitingRet = "i32"
           THEN /\ clientLog' = Append(clientLog,
                        LogEntry(p, waiting.name, waiting.arg, "ok", msg.val, 0))
                /\ waiting' = Idle
                /\ UNCHANGED << proxies, nProxies >>
           ELSE IF msg.tag = "MethodReturned" /\ msg.kind = "Service"
                   /\ WaitingRet # "i32"
           THEN /\ proxies' = Append(proxies, NewProxy(msg.val, WaitingRet, p))
                /\ nProxies' = nProxies + 1
                /\ clientLog' = Append(clientLog,
                        LogEntry(p, waiting.name, waiting.arg, "ok", 0, nProxies + 1))
                /\ waiting' = Idle
           ELSE /\ clientLog' = Append(clientLog,
                        LogEntry(p, waiting.name, waiting.arg, "panic", 0, 0))
                /\ waiting' = [Idle EXCEPT !.op = "dead"]
                /\ UNCHANGED << proxies, nProxies >>
    /\ UNCHANGED << serverVars, toServer, clientClosed, rootType, nSent,
                    taskVars, processVars, unitVars >>

\* close() up to its send: is_closed goes from false to true, the channel
\* lock is taken and DropService is written.
ProxyClose ==
    /\ ClientAlive
    /\ \E p \in 1 .. nProxies :
         /\ Usable(p)
         /\ proxies' = [proxies EXCEPT ![p].is_closed = TRUE]
         /\ toServer' = IF phase \in {"accepted", "running"}
                        THEN Append(toServer, DropService(proxies[p].service_id))
                        ELSE toServer
         /\ waiting' = [op |-> "close", proxy |-> p, name |-> "close", arg |-> Nil]
    /\ nSent' = nSent + 1
    /\ UNCHANGED << serverVars, toClient, clientClosed, rootType, nProxies,
                    clientLog,
                    taskVars, processVars, unitVars >>

\* The rest of close(): the next server message must be DropServiceDone.
ProxyCloseReturn ==
    /\ waiting.op = "close"
    /\ toClient # << >>
    /\ toClient' = Tail(toClient)
    /\ IF Head(toClient) = DropServiceDone
       THEN /\ clientLog' = Append(clientLog,
                    LogEntry(waiting.proxy, "close", Nil, "ok", 0, 0))
            /\ waiting' = Idle
       ELSE /\ clientLog' = Append(clientLog,
                    LogEntry(waiting.proxy, "close", Nil, "panic", 0, 0))
            /\ waiting' = [Idle EXCEPT !.op = "dead"]
    /\ UNCHANGED << serverVars, toServer, clientClosed, rootType, nSent,
                    proxies, nProxies,
                    taskVars, processVars, unitVars >>

\* The server closed the connection while a call or a close() waits for its
\* reply: the operation returns an io::Error to its caller, which gives up.
ProxyConnectionClosed ==
    /\ waiting.op \in {"call", "close"}
    /\ toClient = << >>
    /\ phase \in {"teardown", "ended", "aborted"}
    /\ clientLog' = Append(clientLog,
            LogEntry(waiting.proxy, waiting.name, waiting.arg, "err", 0, 0))
    /\ waiting' = [Idle EXCEPT !.op = "dead"]
    /\ UNCHANGED << serverVars, toServer, toClient, clientClosed, rootType,
                    nSent, proxies, nProxies,
                    taskVars, processVars, unitVars >>

\* Every proxy is closed and dropped: the channel and its socket are dropped.
ClientDisconnect ==
    /\ nProxies >= 1
    /\ waiting.op = "none"
    /\ ~clientClosed
    /\ \A p \in 1 .. nProxies : proxies[p].is_closed
    /\ clientClosed' = TRUE
    /\ UNCHANGED << serverVars, toServer, toClient, rootType, nSent, clientVars, taskVars,
                    processVars, unitVars >>

ProxyReturns ==
    \/ ProxyCallReturn
    \/ ProxyCloseReturn
    \/ ProxyConnectionClosed

\* The server's steps on a connection whose transport does not fail and
\* whose task is not cancelled.
ServerSteps ==
    \/ AcceptConnection
    \/ ReadRequest
    \/ ReadEndOfStream
    \/ Dispatch
    \/ SendReply
    \/ TeardownStep
    \/ TeardownDone

NextProxy ==
    \/ ServerSteps
    \/ StartClient
    \/ ProxyCall
    \/ ProxyClose
    \/ ProxyReturns
    \/ ClientDisconnect

\* The connection task is polled as long as it can make progress, and so is
\* the client operation that waits for its reply.
SpecProxy ==
    /\ Init
    /\ [][NextProxy]_vars
    /\ WF_vars(ServerSteps)
    /\ WF_vars(ProxyReturns)

\* ------------------------------------- client tasks using generated proxies
\* What locked.next() hands to a waiting operation when the stream has ended.
StreamEnd == [tag |-> "End", kind |-> "None", val |-> 0]
\* A packet whose bytes do not decode to a ServerMessage.
MalformedReply == [tag |-> "Malformed", kind |-> "None", val |-> 0]

\* The return type of method name of service type.
RetOf(type, name) ==
    LET ms == Interface(type)
        k == CHOOSE i \in 1 .. Len(ms) : ms[i].name = name
    IN  ms[k].ret

\* swap(true) for compare_exchange(false, true): the flag is set and the
\* operation goes on whatever the flag was.
CompareExchange_swap(flag) == [ok |-> TRUE, flag |-> TRUE]

\* is_closed.compare_exchange(false, true, SeqCst, SeqCst) in close().
CompareExchange(flag) == [ok |-> ~flag, flag |-> TRUE]

\* The channel guard dropped as soon as the request is written.
LockedGuard_released(t) == 0

\* The holder of the channel lock after the send: `locked` lives until the
\* operation returns, so the sender keeps the lock.
LockedGuard(t) == t

\* `??` replaced by unwrap(): a stream that ended or yielded an error panics.
ParseReturn_unwrap(op, ret, item) ==
    CASE item.tag \in {"End", "Malformed"} -> "panic"
      [] op = "close" -> IF item.tag = "DropServiceDone" THEN "ok" ELSE "panic"
      [] item.tag = "DropServiceDone" -> "panic"
      [] ret = "i32" -> IF item.kind = "Data" THEN "ok" ELSE "panic"
      [] OTHER -> IF item.kind = "Service" THEN "ok" ELSE "panic"

\* A reply of the wrong tag or kind turned into an error instead of a panic,
\* except a Service reply to a data call, which is taken as the value.
ParseReturn_lenient(op, ret, item) ==
    CASE item.tag \in {"End", "Malformed"} -> "err"
      [] op = "close" -> IF item.tag = "DropServiceDone" THEN "ok" ELSE "err"
      [] item.tag = "DropServiceDone" -> "err"
      [] ret = "i32" -> "ok"
      [] OTHER -> IF item.kind = "Service" THEN "ok" ELSE "err"

\* What a proxy operation makes of the item locked.next() yields: "err" for a
\* stream that ended or a packet that is not a ServerMessage (ok_or_else and
\* the two `?`), "panic" for a reply of the wrong tag or kind, "ok" otherwise.
ParseReturn(op, ret, item) ==
    CASE item.tag \in {"End", "Malformed"} -> "err"
      [] op = "close" -> IF item.tag = "DropServiceDone" THEN "ok" ELSE "panic"
      [] item.tag = "DropServiceDone" -> "panic"
      [] ret = "i32" -> IF item.kind = "Data" THEN "ok" ELSE "panic"
      [] OTHER -> IF item.kind = "Service" THEN "ok" ELSE "panic"

\* A Drop that never checks the flag.
DropPanics_never(flag, unwinding) == FALSE

\* Drop for the proxy: it panics iff the thread is not already unwinding and
\* is_closed is false.
DropPanics(flag, unwinding) == ~unwinding /\ ~flag

\* Methods that take self by shared reference: the returned proxy borrows
\* nothing.
Borrowed_never(p) == FALSE

\* A method takes &'a mut self and returns ServiceRefMut<'a, _>: proxy p is
\* mutably borrowed as long as a proxy returned by one of its methods is alive.
Borrowed(p) == \E q \in 1 .. nProxies : proxies[q].parent = p /\ ~proxies[q].dropped

\* Proxy p is inside an operation (its &mut self is taken by a future).
InUse(p) == \E t \in TaskIds : tasks[t].st = "sent" /\ tasks[t].proxy = p

\* The proxies task t can name in an expression the compiler accepts.
Available(t, p) ==
    /\ p \in 1 .. nProxies
    /\ proxies[p].owner = t
    /\ ~proxies[p].dropped
    /\ ~Borrowed(p)
    /\ ~InUse(p)

\* The arguments the tasks pass: the unit tuple and one i32.
TaskArgs == {Nil, 0}

\* Whether the client's socket still takes and delivers packets.
Connected == phase \in {"accepted", "running"}

\* locked.send(msg): the packet is written; one written to a connection the
\* server has left is lost.
SendPacket(p, m) ==
    /\ toServer' = IF Connected THEN Append(toServer, m) ELSE toServer
    /\ wireLog' = Append(wireLog, [proxy |-> p, msg |-> m])
    /\ nSent' = nSent + 1

\* from_service_id(ServiceId(0), stream_sink.clone()) by a task that has no
\* proxy yet: a second handle on the initial service over the same channel;
\* the proxies derived from one another form a chain of borrows, so this is
\* how two tasks come to work on one connection at the same time.
FromServiceId(t) ==
    /\ nProxies >= 1
    /\ \A p \in 1 .. nProxies : proxies[p].owner # t
    /\ \E p \in 1 .. nProxies : ~proxies[p].dropped
    /\ proxies' = Append(proxies, [NewProxy(0, rootType, 0) EXCEPT !.owner = t])
    /\ nProxies' = nProxies + 1
    /\ UNCHANGED << serverVars, toServer, toClient, clientClosed, rootType,
                    nSent, waiting, clientLog, taskVars, processVars,
                    unitVars >>

\* A generated proxy method up to its send: the arguments are serialized,
\* the channel lock is acquired and CallMethod is written.
TaskCall(t) ==
    /\ tasks[t].st = "idle"
    /\ stream_sink = 0
    /\ nSent < MaxOps /\ ~clientClosed
    /\ \E p \in 1 .. nProxies :
         /\ Available(t, p)
         /\ \E k \in 1 .. Len(Interface(proxies[p].type)) :
              \E a \in StubArgs(Interface(proxies[p].type)[k]) \cap TaskArgs :
                 /\ SendPacket(p, CallMethod(proxies[p].service_id,
                                             StubMethodId(k), a))
                 /\ tasks' = [tasks EXCEPT ![t] =
                        [st |-> "sent", op |-> "call", proxy |-> p,
                         name |-> Interface(proxies[p].type)[k].name,
                         arg |-> a, seq |-> nSent + 1]]
    /\ stream_sink' = LockedGuard(t)
    /\ UNCHANGED << serverVars, toClient, clientClosed, rootType, clientVars,
                    processVars, unitVars >>

\* close() up to its send. When the compare-and-set fails the operation
\* returns the error "closed twice" at once; otherwise the channel lock is
\* acquired and DropService is written.
TaskClose(t) ==
    /\ tasks[t].st = "idle"
    /\ ~clientClosed
    /\ \E p \in 1 .. nProxies :
         /\ Available(t, p)
         /\ LET r == CompareExchange(proxies[p].is_closed)
            IN  IF ~r.ok
                THEN /\ Len(clientLog) < MaxOps
                     /\ clientLog' = Append(clientLog,
                             LogEntry(p, "close", Nil, "err", 0, 0))
                     /\ UNCHANGED << proxies, tasks, stream_sink, wireLog,
                                     toServer, nSent >>
                ELSE /\ stream_sink = 0
                     /\ nSent < MaxOps
                     /\ proxies' = [proxies EXCEPT ![p].is_closed = r.flag]
                     /\ SendPacket(p, DropService(proxies[p].service_id))
                     /\ tasks' = [tasks EXCEPT ![t] =
                            [st |-> "sent", op |-> "close", proxy |-> p,
                             name |-> "close", arg |-> Nil, seq |-> nSent + 1]]
                     /\ stream_sink' = LockedGuard(t)
                     /\ UNCHANGED clientLog
    /\ UNCHANGED << serverVars, toClient, clientClosed, rootType, nProxies,
                    waiting, processVars, unitVars >>

\* How an operation of task t ends once locked.next() has yielded item: the
\* guard on the channel is dropped, also when the operation panics.
TaskReturn(t, item) ==
    LET w == tasks[t]
        ret == IF w.op = "call" THEN RetOf(proxies[w.proxy].type, w.name) ELSE "unit"
        r == ParseReturn(w.op, ret, item)
    IN  /\ stream_sink' = 0
        /\ tasks' = [tasks EXCEPT ![t] =
               [IdleTask EXCEPT !.st = IF r = "panic" THEN "panicked" ELSE "idle"]]
        /\ IF r = "ok" /\ w.op = "call" /\ ret # "i32"
           THEN /\ proxies' = Append(proxies,
                       [NewProxy(item.val, ret, w.proxy) EXCEPT !.owner = t])
                /\ nProxies' = nProxies + 1
                /\ clientLog' = Append(clientLog,
                       LogEntry(w.proxy, w.name, w.arg, "ok", 0, nProxies + 1))
           ELSE /\ clientLog' = Append(clientLog,
                       LogEntry(w.proxy, w.name, w.arg, r,
                                IF r = "ok" /\ w.op = "call" THEN item.val ELSE 0, 0))
                /\ UNCHANGED << proxies, nProxies >>

\* The rest of a proxy method or of close(): the next packet is taken from
\* the channel.
TaskReceive(t) ==
    /\ tasks[t].st = "sent"
    /\ stream_sink = LockedGuard(t)
    /\ toClient # << >>
    /\ toClient' = Tail(toClient)
    /\ TaskReturn(t, Head(toClient))
    /\ UNCHANGED << serverVars, toServer, clientClosed, rootType, nSent,
                    waiting, wireLog, processVars, unitVars >>

\* The server has closed the connection and nothing is left to read:
\* locked.next() yields None.
TaskConnectionClosed(t) ==
    /\ tasks[t].st = "sent"
    /\ stream_sink = LockedGuard(t)
    /\ toClient = << >>
    /\ phase \in {"teardown", "ended", "aborted"}
    /\ TaskReturn(t, StreamEnd)
    /\ UNCHANGED << serverVars, toServer, toClient, clientClosed, rootType,
                    nSent, waiting, wireLog, processVars, unitVars >>

\* A proxy of task t goes out of scope, in normal execution or while the task
\* unwinds from a panic.
TaskDrop(t) ==
    /\ tasks[t].st \in {"idle", "panicked"}
    /\ \E p \in 1 .. nProxies :
         /\ proxies[p].owner = t
         /\ ~proxies[p].dropped
         /\ ~Borrowed(p)
         /\ proxies' = [proxies EXCEPT ![p].dropped = TRUE]
         /\ IF DropPanics(proxies[p].is_closed, tasks[t].st = "panicked")
            THEN /\ tasks' = [tasks EXCEPT ![t].st = "panicked"]
                 /\ clientLog' = Append(clientLog,
                         LogEntry(p, "drop", Nil, "panic", 0, 0))
            ELSE UNCHANGED << tasks, clientLog >>
    /\ UNCHANGED << serverVars, toServer, toClient, clientClosed, rootType,
                    nSent, nProxies, waiting, stream_sink, wireLog, processVars,
                    unitVars >>

\* The last proxy is gone, and the channel and its socket with it.
TaskDisconnect ==
    /\ nProxies >= 1
    /\ ~clientClosed
    /\ \A p \in 1 .. nProxies : proxies[p].dropped
    /\ clientClosed' = TRUE
    /\ UNCHANGED << serverVars, toServer, toClient, rootType, nSent, clientVars,
                    taskVars, processVars, unitVars >>

TaskReturns == \E t \in TaskIds : TaskReceive(t) \/ TaskConnectionClosed(t)

NextTasks ==
    \/ ServerSteps
    \/ StartClient
    \/ \E t \in TaskIds : FromServiceId(t)
    \/ \E t \in TaskIds : TaskCall(t)
    \/ \E t \in TaskIds : TaskClose(t)
    \/ TaskReturns
    \/ \E t \in TaskIds : TaskDrop(t)
    \/ TaskDisconnect

\* The connection task and the operations that wait for a reply are polled
\* as long as they can make progress.
SpecTasks ==
    /\ Init
    /\ [][NextTasks]_vars
    /\ WF_vars(ServerSteps)
    /\ WF_vars(TaskReturns)

\* ------------------------------------------------- a transport that corrupts
\* The packets a reply may be turned into.
ReplyPackets ==
    {MalformedReply, DropServiceDone, MethodReturnedData(0), MethodReturnedService(1)}

\* Random bytes injected into the frame at the head of the server's socket:
\* it no longer decodes to a ClientMessage.
CorruptRequest ==
    /\ toServer # << >>
    /\ Head(toServer) # MalformedPacket
    /\ toServer' = << MalformedPacket >> \o Tail(toServer)
    /\ UNCHANGED << serverVars, toClient, clientClosed, rootType, nSent,
                    clientVars, taskVars, processVars, unitVars >>

\* Random bytes injected into the frame at the head of the client's socket:
\* it decodes to nothing, or to another ServerMessage.
CorruptReply ==
    /\ toClient # << >>
    /\ \E m \in ReplyPackets \ {Head(toClient)} :
         toClient' = << m >> \o Tail(toClient)
    /\ UNCHANGED << serverVars, toServer, clientClosed, rootType, nSent,
                    clientVars, taskVars, processVars, unitVars >>

\* One client task, the server, and the transport between them.
NextWire ==
    \/ ServerSteps
    \/ StartClient
    \/ TaskCall(1)
    \/ TaskClose(1)
    \/ TaskReceive(1)
    \/ TaskConnectionClosed(1)
    \/ TaskDrop(1)
    \/ TaskDisconnect
    \/ CorruptRequest
    \/ CorruptReply

SpecWire == Init /\ [][NextWire]_vars

\* --------------------------------------------------------------- wire codec
\* messages.rs turns a message into bytes with rmp_serde::to_vec and back
\* with rmp_serde::decode::from_slice: MessagePack, an enum variant written
\* under its name, a newtype struct as its field, a Vec<u8> as an array of
\* integers. Integers of the model stay below 2^31.
MaxArgsLen == 2

\* The serde names of the variants, in ASCII.
VariantName(tag) ==
    CASE tag = "DropService" ->
           << 68, 114, 111, 112, 83, 101, 114, 118, 105, 99, 101 >>
      [] tag = "CallMethod" ->
           << 67, 97, 108, 108, 77, 101, 116, 104, 111, 100 >>
      [] tag = "DropServiceDone" ->
           << 68, 114, 111, 112, 83, 101, 114, 118, 105, 99, 101,
              68, 111, 110, 101 >>
      [] tag = "MethodReturned" ->
           << 77, 101, 116, 104, 111, 100, 82, 101, 116, 117, 114, 110,
              101, 100 >>
      [] tag = "Data" -> << 68, 97, 116, 97 >>
      [] tag = "Service" -> << 83, 101, 114, 118, 105, 99, 101 >>

\* The variants of each enum, in the order of their declaration.
Variants(enum) ==
    CASE enum = "ClientMessage" -> << "DropService", "CallMethod" >>
      [] enum = "ServerMessage" -> << "DropServiceDone", "MethodReturned" >>
      [] enum = "ReturnValue" -> << "Data", "Service" >>

\* The k bytes of n, most significant first.
RECURSIVE BigEndian(_, _)
BigEndian(n, k) ==
    IF k = 0 THEN << >> ELSE Append(BigEndian(n \div 256, k - 1), n % 256)

RECURSIVE FromBigEndian(_)
FromBigEndian(b) ==
    IF b = << >> THEN 0
    ELSE 256 * FromBigEndian(SubSeq(b, 1, Len(b) - 1)) + b[Len(b)]

\* An unsigned integer always written as a positive fixint.
WriteUint_fixint(n) == << n % 128 >>

\* serialize_u64: the shortest of positive fixint, uint 8, uint 16, uint 32.
WriteUint(n) ==
    IF n < 128 THEN << n >>
    ELSE IF n < 256 THEN << 204 >> \o BigEndian(n, 1)
    ELSE IF n < 65536 THEN << 205 >> \o BigEndian(n, 2)
    ELSE << 206 >> \o BigEndian(n, 4)

\* serialize_str: fixstr or str 8, then the bytes of the string.
WriteStr(name) ==
    (IF Len(name) < 32 THEN << 160 + Len(name) >> ELSE << 217, Len(name) >>)
      \o name

\* The header of a sequence or tuple: fixarray or array 16.
WriteArrayLen(n) ==
    IF n < 16 THEN << 144 + n >> ELSE << 220 >> \o BigEndian(n, 2)

\* The header of a newtype or tuple variant: a map of one pair.
WriteMapLen(n) ==
    IF n < 16 THEN << 128 + n >> ELSE << 222 >> \o BigEndian(n, 2)

\* Vec<u8> as serde writes it: a sequence of integers.
RECURSIVE WriteElems(_)
WriteElems(v) ==
    IF v = << >> THEN << >> ELSE WriteUint(Head(v)) \o WriteElems(Tail(v))

WriteVecU8(v) == WriteArrayLen(Len(v)) \o WriteElems(v)

\* From<ClientMessage> for Bytes.
EncodeClientMessage(m) ==
    IF m.tag = "DropService"
    THEN WriteMapLen(1) \o WriteStr(VariantName("DropService"))
           \o WriteUint(m.sid)
    ELSE WriteMapLen(1) \o WriteStr(VariantName("CallMethod"))
           \o WriteArrayLen(3) \o WriteUint(m.sid) \o WriteUint(m.mid)
           \o WriteVecU8(m.args)

\* From<ServerMessage> for Bytes.
EncodeServerMessage(m) ==
    IF m.tag = "DropServiceDone"
    THEN WriteStr(VariantName("DropServiceDone"))
    ELSE WriteMapLen(1) \o WriteStr(VariantName("MethodReturned"))
           \o WriteMapLen(1) \o WriteStr(VariantName(m.kind))
           \o (IF m.kind = "Data" THEN WriteVecU8(m.val) ELSE WriteUint(m.val))

\* What a read returns: the value and the bytes after it, or a failure.
ReadFail == [ok |-> FALSE, val |-> 0, rest |-> << >>]
ReadOk(v, rest) == [ok |-> TRUE, val |-> v, rest |-> rest]
DropBytes(b, k) == SubSeq(b, k + 1, Len(b))

\* An integer of k bytes after the marker; a negative one is no u64.
ReadInt(b, k, signed) ==
    IF Len(b) < 1 + k THEN ReadFail
    ELSE IF signed /\ b[2] >= 128 THEN ReadFail
    ELSE ReadOk(FromBigEndian(SubSeq(b, 2, 1 + k)), DropBytes(b, 1 + k))

\* deserialize_u64: any integer format whose value is not negative.
ReadUint(b) ==
    IF b = << >> THEN ReadFail
    ELSE IF b[1] < 128 THEN ReadOk(b[1], DropBytes(b, 1))
    ELSE IF b[1] \in 204 .. 207
         THEN ReadInt(b, CASE b[1] = 204 -> 1 [] b[1] = 205 -> 2
                           [] b[1] = 206 -> 4 [] OTHER -> 8, FALSE)
    ELSE IF b[1] \in 208 .. 211
         THEN ReadInt(b, CASE b[1] = 208 -> 1 [] b[1] = 209 -> 2
                           [] b[1] = 210 -> 4 [] OTHER -> 8, TRUE)
    ELSE ReadFail

\* A string: fixstr or str 8 and as many bytes as its header says.
ReadStr(b) ==
    IF b = << >> THEN ReadFail
    ELSE IF b[1] \in 160 .. 191
         THEN IF Len(b) < 1 + (b[1] - 160) THEN ReadFail
              ELSE ReadOk(SubSeq(b, 2, 1 + (b[1] - 160)),
                          DropBytes(b, 1 + (b[1] - 160)))
    ELSE IF b[1] = 217 /\ Len(b) >= 2
         THEN IF Len(b) < 2 + b[2] THEN ReadFail
              ELSE ReadOk(SubSeq(b, 3, 2 + b[2]), DropBytes(b, 2 + b[2]))
    ELSE ReadFail

\* The header of an array: fixarray or array 16.
ReadArrayLen(b) ==
    IF b = << >> THEN ReadFail
    ELSE IF b[1] \in 144 .. 159 THEN ReadOk(b[1] - 144, DropBytes(b, 1))
    ELSE IF b[1] = 220 THEN ReadInt(b, 2, FALSE)
    ELSE ReadFail

\* The header of a map: fixmap or map 16.
ReadMapLen(b) ==
    IF b = << >> THEN ReadFail
    ELSE IF b[1] \in 128 .. 143 THEN ReadOk(b[1] - 128, DropBytes(b, 1))
    ELSE IF b[1] = 222 THEN ReadInt(b, 2, FALSE)
    ELSE ReadFail

\* n elements of a Vec<u8>: each an integer that fits in a u8.
RECURSIVE ReadElems(_, _, _)
ReadElems(b, n, acc) ==
    IF n = 0 THEN ReadOk(acc, b)
    ELSE LET e == ReadUint(b)
         IN  IF ~e.ok \/ e.val > 255 THEN ReadFail
             ELSE ReadElems(e.rest, n - 1, Append(acc, e.val))

ReadVecU8(b) ==
    LET n == ReadArrayLen(b)
    IN  IF n.ok THEN ReadElems(n.rest, n.val, << >>) ELSE ReadFail

\* The identifier of a variant: its name, or its index in the enum.
ReadVariant(b, variants) ==
    LET s == ReadStr(b)
        i == ReadUint(b)
    IN  IF s.ok
        THEN IF \E k \in 1 .. Len(variants) : VariantName(variants[k]) = s.val
             THEN ReadOk(variants[CHOOSE k \in 1 .. Len(variants) :
                                    VariantName(variants[k]) = s.val], s.rest)
             ELSE ReadFail
        ELSE IF i.ok /\ i.val < Len(variants)
             THEN ReadOk(variants[i.val + 1], i.rest)
             ELSE ReadFail

\* deserialize_enum: a map of one pair holds the variant and its data, and
\* anything else is read as a variant without data.
ReadEnum(b, variants) ==
    LET m == ReadMapLen(b)
        v == ReadVariant(IF m.ok THEN m.rest ELSE b, variants)
    IN  IF m.ok /\ m.val # 1 THEN ReadFail
        ELSE IF ~v.ok THEN ReadFail
        ELSE [ok |-> TRUE, val |-> v.val, rest |-> v.rest, unit |-> ~m.ok]

\* The result of a decoding: a whole message, or an error and no message.
DecodeError == [ok |-> FALSE, msg |-> NoMessage]
Decoded(m) == [ok |-> TRUE, msg |-> m]

\* The data of the variant CallMethod: a tuple of three.
ReadCallMethod(b) ==
    LET n == ReadArrayLen(b)
        s == ReadUint(n.rest)
        m == ReadUint(s.rest)
        a == ReadVecU8(m.rest)
    IN  IF ~n.ok \/ n.val # 3 THEN DecodeError
        ELSE IF ~s.ok THEN DecodeError
        ELSE IF ~m.ok THEN DecodeError
        ELSE IF ~a.ok THEN DecodeError
        ELSE Decoded(CallMethod(s.val, m.val, a.val))

\* TryFrom<Bytes> for ClientMessage; bytes after the value are not looked at.
DecodeClientMessage(b) ==
    LET e == ReadEnum(b, Variants("ClientMessage"))
        s == ReadUint(e.rest)
    IN  IF ~e.ok \/ e.unit THEN DecodeError
        ELSE IF e.val = "DropService"
             THEN IF s.ok THEN Decoded(DropService(s.val)) ELSE DecodeError
        ELSE ReadCallMethod(e.rest)

\* The data of the variant MethodReturned: a ReturnValue.
ReadReturnValue(b) ==
    LET e == ReadEnum(b, Variants("ReturnValue"))
        d == ReadVecU8(e.rest)
        s == ReadUint(e.rest)
    IN  IF ~e.ok \/ e.unit THEN DecodeError
        ELSE IF e.val = "Data"
             THEN IF d.ok THEN Decoded(MethodReturnedData(d.val))
                  ELSE DecodeError
        ELSE IF s.ok THEN Decoded(MethodReturnedService(s.val))
             ELSE DecodeError

\* TryFrom<Bytes> for ServerMessage.
DecodeServerMessage(b) ==
    LET e == ReadEnum(b, Variants("ServerMessage"))
    IN  IF ~e.ok THEN DecodeError
        ELSE IF e.val = "DropServiceDone"
             THEN IF e.unit \/ (e.rest # << >> /\ e.rest[1] = 192)
                  THEN Decoded(DropServiceDone) ELSE DecodeError
        ELSE IF e.unit THEN DecodeError
        ELSE ReadReturnValue(e.rest)

Encode(side, m) ==
    IF side = "client" THEN EncodeClientMessage(m) ELSE EncodeServerMessage(m)
Decode(side, b) ==
    IF side = "client" THEN DecodeClientMessage(b) ELSE DecodeServerMessage(b)

\* The messages and the byte strings given to the codec: ids and payload
\* bytes on both sides of each change of integer format; every encoding cut
\* short, and every encoding with one byte of its head (the map header, the
\* variant's name, the first byte of the variant's data) replaced by the
\* marker 0xc1 that MessagePack never uses.
WireIds == {0, 1, 127, 128, 255, 256, 65535, 65536}
Payloads == UNION {[1 .. n -> {0, 127, 128, 255}] : n \in 0 .. MaxArgsLen}
Messages(side) ==
    IF side = "client"
    THEN {DropService(s) : s \in WireIds}
           \cup {CallMethod(s, m, a) : s \in WireIds, m \in {0, 1, 128},
                                       a \in Payloads}
    ELSE {DropServiceDone}
           \cup {MethodReturnedData(d) : d \in Payloads}
           \cup {MethodReturnedService(s) : s \in WireIds}
BadBytes(side) ==
    LET HeadLen(m) == IF m.tag = "DropServiceDone"
                      THEN 1 + Len(VariantName(m.tag))
                      ELSE 3 + Len(VariantName(m.tag))
        Truncated(b) == {SubSeq(b, 1, k) : k \in 0 .. (Len(b) - 1)}
        Corrupted(b, n) == {[b EXCEPT ![k] = 193] : k \in 1 .. n}
    IN  UNION {Truncated(Encode(side, m))
                 \cup Corrupted(Encode(side, m), HeadLen(m)) :
                 m \in Messages(side)}

InitCodec ==
    /\ InitConnection({"ParentService"})
    /\ expansion = NoExpansion
    /\ collection = NoCollection
    /\ parser = NoParser
    /\ \E side \in {"client", "server"} :
         \/ \E m \in Messages(side) :
              codec = [NoCodec EXCEPT !.stage = "message", !.side = side,
                                      !.msg = m]
         \/ \E b \in BadBytes(side) :
              codec = [NoCodec EXCEPT !.stage = "received", !.side = side,
                                      !.bytes = b]

\* The sender turns its message into the bytes of one packet.
EncodeMessage ==
    /\ codec.stage = "message"
    /\ codec' = [codec EXCEPT !.stage = "received",
                              !.bytes = Encode(codec.side, codec.msg)]
    /\ UNCHANGED << serverVars, toServer, toClient, clientClosed, rootType,
                    nSent, clientVars, taskVars, processVars, expansion,
                    collection, parser >>

\* The receiver turns the bytes of one packet into a message or an error.
DecodeBytes ==
    /\ codec.stage = "received"
    /\ codec' = [codec EXCEPT !.stage = "decoded",
                              !.result = Decode(codec.side, codec.bytes)]
    /\ UNCHANGED << serverVars, toServer, toClient, clientClosed, rootType,
                    nSent, clientVars, taskVars, processVars, expansion,
                    collection, parser >>

NextCodec ==
    \/ EncodeMessage
    \/ DecodeBytes

SpecCodec == InitCodec /\ [][NextCodec]_vars

\* ------------------------------------------------------- macro expansion
\* interface_file! parses a service definition into Service.methods, a
\* BTreeMap keyed by the method's Identifier, and numbers the methods with
\* enumerate() over that map, once for the client proxy and once for the
\* server handler.
MaxMethods == 3

\* The method names of the hello_world and parent_child examples.
MethodNames == {"foo", "bar", "baz", "get", "child"}

\* The bytes of an Identifier's String.
IdentifierBytes(name) ==
    CASE name = "foo" -> << 102, 111, 111 >>
      [] name = "bar" -> << 98, 97, 114 >>
      [] name = "baz" -> << 98, 97, 122 >>
      [] name = "get" -> << 103, 101, 116 >>
      [] name = "child" -> << 99, 104, 105, 108, 100 >>

\* #[derive(PartialOrd, Ord)] on Identifier(String): the order of the bytes.
RECURSIVE BytesLess(_, _)
BytesLess(a, b) ==
    IF b = << >> THEN FALSE
    ELSE IF a = << >> THEN TRUE
    ELSE IF Head(a) # Head(b) THEN Head(a) < Head(b)
    ELSE BytesLess(Tail(a), Tail(b))

IdentifierLess(x, y) == BytesLess(IdentifierBytes(x), IdentifierBytes(y))

\* parse_service: the methods of the definition, keyed by name; a name
\* defined twice is an error.
parse_service(decl) ==
    IF \E i, j \in 1 .. Len(decl) : i # j /\ decl[i] = decl[j]
    THEN [ok |-> FALSE, methods |-> {}]
    ELSE [ok |-> TRUE, methods |-> {decl[i] : i \in 1 .. Len(decl)}]

\* service.methods.iter(): the keys of the BTreeMap in ascending order,
\* whatever the order in which parse_service inserted them.
RECURSIVE MethodsIter(_)
MethodsIter(methods) ==
    IF methods = {} THEN << >>
    ELSE LET least == CHOOSE x \in methods :
                         \A y \in methods \ {x} : IdentifierLess(x, y)
         IN  << least >> \o MethodsIter(methods \ {least})

\* The proxy's methods numbered from the last one down.
ProxyMethodIds_reversed(methods) ==
    LET it == MethodsIter(methods)
    IN  [name \in methods |->
           Len(it) - (CHOOSE k \in 1 .. Len(it) : it[k] = name)]

\* proxy_method_impl: the MethodId that the proxy's method sends.
ProxyMethodIds(methods) ==
    LET it == MethodsIter(methods)
    IN  [name \in methods |-> (CHOOSE k \in 1 .. Len(it) : it[k] = name) - 1]

\* parse_and_call_method_locally_impl_branches: the method that the branch
\* for each MethodId calls (position k holds the branch of MethodId k - 1).
HandlerBranches(methods) == MethodsIter(methods)

\* The service definitions given to the macro.
Declarations == UNION {[1 .. n -> MethodNames] : n \in 0 .. MaxMethods}

InitExpansion ==
    /\ InitConnection({"ParentService"})
    /\ codec = NoCodec
    /\ collection = NoCollection
    /\ parser = NoParser
    /\ \E d \in Declarations :
         expansion = [NoExpansion EXCEPT !.stage = "source", !.decl = d]

\* parse_interface on the interface file.
ParseService ==
    /\ expansion.stage = "source"
    /\ LET p == parse_service(expansion.decl)
       IN  expansion' = [expansion EXCEPT
               !.stage = IF p.ok THEN "parsed" ELSE "error",
               !.methods = p.methods]
    /\ UNCHANGED << serverVars, toServer, toClient, clientClosed, rootType,
                    nSent, clientVars, taskVars, processVars, codec,
                    collection, parser >>

\* code_for_service: the proxy and the handler of the service.
ExpandService ==
    /\ expansion.stage = "parsed"
    /\ expansion' = [expansion EXCEPT
           !.stage = "expanded",
           !.stub = ProxyMethodIds(expansion.methods),
           !.handler = HandlerBranches(expansion.methods)]
    /\ UNCHANGED << serverVars, toServer, toClient, clientClosed, rootType,
                    nSent, clientVars, taskVars, processVars, codec,
                    collection, parser >>

NextExpansion ==
    \/ ParseService
    \/ ExpandService

SpecExpansion == InitExpansion /\ [][NextExpansion]_vars

\* ------------------------------------------- ServerCollection on its own
\* register_service and remove_service_entry_arc called in any order on one
\* ServerCollection, as the handlers of a connection call them. The entries
\* are numbered in the order of their registration. For each id the record
\* keeps, since the id was last handed out, the ids that were registered at
\* some moment (seen), and, since it was last removed, the number of
\* registrations made (since, -1 when it was not removed); after is that
\* number for the id just handed out.
MaxRegs == 7

\* ServerCollection::new().
NewCollection == [NoCollection EXCEPT !.stage = "new"]

LiveIds(map) == {i \in Ids : map[i] # NoCell}

\* register_service(service, parent_guard) returns curr_service_id, or
\* never returns when every id is in the map.
CollectionRegister ==
    /\ collection.stage = "new"
    /\ collection.registered < MaxRegs
    /\ LET map == collection.active_services
           n == collection.next_service_id
           id == register_service_id(map, n)
           entry == collection.registered + 1
       IN  IF id = -1
           THEN collection' = [collection EXCEPT !.stage = "spin",
                                                 !.op = "register"]
           ELSE collection' = [collection EXCEPT
                    !.active_services = [map EXCEPT ![id] = entry],
                    !.next_service_id = get_and_increment_next_service_id(id),
                    !.registered = entry,
                    !.op = "register",
                    !.id = id,
                    !.from = n,
                    !.after = collection.since[id],
                    !.since = [i \in Ids |->
                                 IF i = id THEN -1
                                 ELSE IF collection.since[i] >= 0
                                      THEN collection.since[i] + 1
                                      ELSE -1],
                    !.seen = [i \in Ids |->
                                IF i = id THEN LiveIds(map) \cup {id}
                                ELSE collection.seen[i] \cup {id}]]
    /\ UNCHANGED << serverVars, toServer, toClient, clientClosed, rootType,
                    nSent, clientVars, taskVars, processVars, codec,
                    expansion, parser >>

\* remove_service_entry_arc(service_id): Some(entry) and the map without the
\* id, or None and the map as it was.
CollectionRemove ==
    /\ collection.stage = "new"
    /\ \E sid \in Ids :
         LET map == collection.active_services
         IN  collection' = [collection EXCEPT
                 !.active_services = remove_service_entry_arc(map, sid),
                 !.op = "remove",
                 !.id = sid,
                 !.after = -1,
                 !.since = [collection.since EXCEPT
                              ![sid] = IF get_service_entry_arc(map, sid) # NoCell
                                       THEN 0 ELSE @]]
    /\ UNCHANGED << serverVars, toServer, toClient, clientClosed, rootType,
                    nSent, clientVars, taskVars, processVars, codec,
                    expansion, parser >>

InitCollection ==
    /\ InitConnection({"ParentService"})
    /\ codec = NoCodec
    /\ expansion = NoExpansion
    /\ parser = NoParser
    /\ collection = NewCollection

NextCollection ==
    \/ CollectionRegister
    \/ CollectionRemove

SpecCollection == InitCollection /\ [][NextCollection]_vars

\* ===================================================== the interface parser
\* rusty_rpc_macro/src/parser.rs: parse_interface on the bytes of an
\* interface file.

\* Number of definitions, fields, methods and parameters in an interface
\* file.
MaxItems == 4

\* The ASCII bytes of the words of the interface files: the keywords, the
\* reserved words, the punctuation and the names used in the files.
Bytes(word) ==
    CASE word = "struct" -> << 115, 116, 114, 117, 99, 116 >>
      [] word = "service" -> << 115, 101, 114, 118, 105, 99, 101 >>
      [] word = "self" -> << 115, 101, 108, 102 >>
      [] word = "mut" -> << 109, 117, 116 >>
      [] word = "crate" -> << 99, 114, 97, 116, 101 >>
      [] word = "super" -> << 115, 117, 112, 101, 114 >>
      [] word = "Self" -> << 83, 101, 108, 102 >>
      [] word = "i32" -> << 105, 51, 50 >>
      [] word = "{" -> << 123 >>
      [] word = "}" -> << 125 >>
      [] word = "(" -> << 40 >>
      [] word = ")" -> << 41 >>
      [] word = "&" -> << 38 >>
      [] word = "," -> << 44 >>
      [] word = ":" -> << 58 >>
      [] word = ";" -> << 59 >>
      [] word = "->" -> << 45, 62 >>
      [] word = "Foo" -> << 70, 111, 111 >>
      [] word = "i32x" -> << 105, 51, 50, 120 >>
      [] word = "MyService" -> << 77, 121, 83, 101, 114, 118, 105, 99, 101 >>
      [] word = "x" -> << 120 >>
      [] word = "y" -> << 121 >>
      [] word = "foo" -> << 102, 111, 111 >>
      [] word = "bar" -> << 98, 97, 114 >>
      [] word = "arg1" -> << 97, 114, 103, 49 >>
      [] word = "arg2" -> << 97, 114, 103, 50 >>

\* The names of the interface files.
StructNames == {"Foo", "i32x"}
ServiceNames == {"MyService"}
FieldNames == {"x", "y"}
MethodIdents == {"foo", "bar"}
ParamNames == {"arg1", "arg2"}

\* DataType::I32 and DataType::Struct(name); ReturnType::ServiceRef(name)
\* and ReturnType::Data(data type). id is the Identifier's string.
I32 == [tag |-> "I32", id |-> << >>]
StructType(id) == [tag |-> "Struct", id |-> id]
ServiceRef(id) == [tag |-> "ServiceRef", id |-> id]
Data(type) == [tag |-> "Data", type |-> type]

\* character::is_alphabetic, is_alphanumeric and the bytes multispace takes.
IsAlphabetic(b) == b \in (65 .. 90) \cup (97 .. 122)
IsAlphanumeric(b) == IsAlphabetic(b) \/ b \in 48 .. 57
IsMultispace(b) == b \in {32, 9, 10, 13}

\* IResult: Ok((rest, val)) and Err(Error).
ParseOk(rest, val) == [ok |-> TRUE, rest |-> rest, val |-> val]
ParseErr == [ok |-> FALSE, rest |-> << >>, val |-> << >>]

\* multispace0: the input after its leading whitespace.
multispace0(input) ==
    SubSeq(input,
           CHOOSE i \in 1 .. Len(input) + 1 :
               /\ \A j \in 1 .. i - 1 : IsMultispace(input[j])
               /\ i <= Len(input) => ~IsMultispace(input[i]),
           Len(input))

\* multispace1: at least one byte of whitespace.
multispace1(input) ==
    IF input # << >> /\ IsMultispace(Head(input))
    THEN ParseOk(multispace0(input), << >>)
    ELSE ParseErr

\* tag(t): the input starts with the bytes t; what follows them is not
\* looked at (the callers drop the matched bytes).
nom_tag(t, input) ==
    IF Len(input) >= Len(t) /\ SubSeq(input, 1, Len(t)) = t
    THEN ParseOk(SubSeq(input, Len(t) + 1, Len(input)), << >>)
    ELSE ParseErr

\* eof: nothing is left.
nom_eof(input) == IF input = << >> THEN ParseOk(input, << >>) ELSE ParseErr

\* many0(satisfy(alphanumeric or '_')): the length of the longest prefix.
IdentifierTail(input) ==
    CHOOSE n \in 0 .. Len(input) :
        /\ \A j \in 1 .. n : IsAlphanumeric(input[j]) \/ input[j] = 95
        /\ n < Len(input) =>
               ~(IsAlphanumeric(input[n + 1]) \/ input[n + 1] = 95)

ReservedWords ==
    {Bytes(w) : w \in {"struct", "service", "self", "mut", "crate", "super", "Self"}}

\* parse_identifier: a letter and the letters, digits and underscores that
\* follow it, refused when the whole is a reserved word.
parse_identifier(input) ==
    IF input = << >> \/ ~IsAlphabetic(Head(input))
    THEN ParseErr
    ELSE LET n == 1 + IdentifierTail(Tail(input))
             s == SubSeq(input, 1, n)
         IN  IF s \in ReservedWords
             THEN ParseErr
             ELSE ParseOk(SubSeq(input, n + 1, Len(input)), s)

\* alt((first, second)): the first parser's result when it succeeded, the
\* second's otherwise.
Alt(first, second) == IF first.ok THEN first ELSE second

\* value(v, parser): v in place of the parser's value.
Value(v, r) == IF r.ok THEN ParseOk(r.rest, v) ELSE ParseErr

\* map(parse_identifier, DataType::Struct).
StructTypeOf(r) == IF r.ok THEN ParseOk(r.rest, StructType(r.val)) ELSE ParseErr

\* parse_data_type: alt((value(I32, tag("i32")), map(parse_identifier,
\* Struct))): the first alternative that succeeds is the result.
parse_data_type(input) ==
    Alt(Value(I32, nom_tag(Bytes("i32"), input)),
        StructTypeOf(parse_identifier(input)))

\* A tuple((..)) or a many0 that has not taken anything yet.
Start(input) == ParseOk(input, << >>)

\* many0(terminated(parse_<kind>, multispace0)) from the elements acc it has
\* taken so far: the elements up to the first one that does not parse, and
\* the input from there on.
RECURSIVE Many(_, _)

\* tuple((..)) after one more parser, whose result on what r left is x: the
\* first Err is the tuple's. Skip is for a parser whose value the closure
\* of the tuple ignores (whitespace, a tag), Take for one it names.
Skip(r, x) == IF r.ok /\ x.ok THEN ParseOk(x.rest, r.val) ELSE ParseErr
Take(r, x) ==
    IF r.ok /\ x.ok THEN ParseOk(x.rest, Append(r.val, x.val)) ELSE ParseErr

\* The parsers a tuple((..)) is made of, each applied to what the parsers
\* before it left: multispace0, multispace1, tag(word), parse_identifier
\* and many0_padded_by_multispace(parse_<kind>).
then_multispace0(r) == Skip(r, ParseOk(multispace0(r.rest), << >>))
then_multispace1(r) == Skip(r, multispace1(r.rest))
then_tag(word, r) == Skip(r, nom_tag(Bytes(word), r.rest))
then_identifier(r) == Take(r, parse_identifier(r.rest))
then_many0(kind, r) == Take(r, Many(kind, Start(multispace0(r.rest))))

then_data_type(r) == Take(r, parse_data_type(r.rest))

\* The closures |(name, .., type, ..)| (name, type) of parse_struct_field
\* and parse_parameter.
NameAndType(r) ==
    IF r.ok THEN ParseOk(r.rest, << r.val[1], r.val[2] >>) ELSE ParseErr

\* parse_struct_field: identifier ":" data-type ",".
parse_struct_field(input) ==
    LET r1 == then_identifier(Start(input))
        r2 == then_multispace0(r1)
        r3 == then_tag(":", r2)
        r4 == then_multispace0(r3)
        r5 == then_data_type(r4)
        r6 == then_multispace0(r5)
        r7 == then_tag(",", r6)
    IN  NameAndType(IF r1.ok /\ r2.ok /\ r3.ok /\ r4.ok /\ r5.ok /\ r6.ok
                    THEN r7 ELSE ParseErr)

\* parse_parameter: "," identifier ":" data-type.
parse_parameter(input) ==
    LET r1 == then_tag(",", Start(input))
        r2 == then_multispace0(r1)
        r3 == then_identifier(r2)
        r4 == then_multispace0(r3)
        r5 == then_tag(":", r4)
        r6 == then_multispace0(r5)
        r7 == then_data_type(r6)
    IN  NameAndType(IF r1.ok /\ r2.ok /\ r3.ok /\ r4.ok /\ r5.ok /\ r6.ok
                    THEN r7 ELSE ParseErr)

\* The closure |(_, _, _, _, x)| ReturnType::ServiceRef(x).
ServiceRefOf(r) == IF r.ok THEN ParseOk(r.rest, ServiceRef(r.val[1])) ELSE ParseErr

\* parse_data_type.map(ReturnType::Data).
DataOf(r) == IF r.ok THEN ParseOk(r.rest, Data(r.val)) ELSE ParseErr

\* parse_return_type: alt(("&" "service" identifier, data-type)).
parse_return_type(input) ==
    LET r1 == then_tag("&", Start(input))
        r2 == then_multispace0(r1)
        r3 == then_tag("service", r2)
        r4 == then_multispace1(r3)
        r5 == then_identifier(r4)
    IN  Alt(ServiceRefOf(IF r1.ok /\ r2.ok /\ r3.ok /\ r4.ok
                         THEN r5 ELSE ParseErr),
            DataOf(parse_data_type(input)))

then_return_type(r) == Take(r, parse_return_type(r.rest))

\* The closure of parse_method: the parameters stay a Vec, in the order of
\* the file.
MethodOf(r) ==
    IF r.ok
    THEN ParseOk(r.rest,
                 << r.val[1],
                    [non_self_params |-> r.val[2], return_type |-> r.val[3]] >>)
    ELSE ParseErr

\* parse_method: identifier "(" "&" "self" parameter* ")" "->" return-type
\* ";".
parse_method(input) ==
    LET r1 == then_identifier(Start(input))
        r2 == then_multispace0(r1)
        r3 == then_tag("(", r2)
        r4 == then_multispace0(r3)
        r5 == then_tag("&", r4)
        r6 == then_multispace0(r5)
        r7 == then_tag("self", r6)
        r8 == then_many0("parameter", r7)
        r9 == then_tag(")", r8)
        r10 == then_multispace0(r9)
        r11 == then_tag("->", r10)
        r12 == then_multispace0(r11)
        r13 == then_return_type(r12)
        r14 == then_multispace0(r13)
        r15 == then_tag(";", r14)
    IN  MethodOf(IF r1.ok /\ r2.ok /\ r3.ok /\ r4.ok /\ r5.ok /\ r6.ok
                    /\ r7.ok /\ r8.ok /\ r9.ok /\ r10.ok /\ r11.ok
                    /\ r12.ok /\ r13.ok /\ r14.ok
                 THEN r15 ELSE ParseErr)

\* The loop without its contains_key test: every pair is inserted, a later
\* one in the place of an earlier one of its name.
InsertAll_overwrite(pairs) ==
    [ok |-> TRUE,
     map |-> {pairs[i] : i \in {k \in 1 .. Len(pairs) :
                                  \A j \in (k + 1) .. Len(pairs) :
                                     pairs[j][1] # pairs[k][1]}}]

\* The loop of the map_res closures of parse_struct and parse_service over
\* the parsed (name, value) pairs, and the loop of definitions_to_interface
\* over the definitions of one kind: each pair goes into a map keyed by
\* name; a name that is in the map already makes the closure return Err.
InsertAll(pairs) ==
    [ok |-> \A i, j \in 1 .. Len(pairs) : pairs[i][1] = pairs[j][1] => i = j,
     map |-> {pairs[i] : i \in 1 .. Len(pairs)}]

\* The end of the map_res closures: Ok((name, Struct { fields })) or
\* Ok((name, Service { methods })), or the Err of a duplicate.
DefinitionOf(kind, r, members) ==
    IF r.ok /\ members.ok
    THEN ParseOk(r.rest, [kind |-> kind, name |-> r.val[1], body |-> members.map])
    ELSE ParseErr

\* map_res(tuple((..)), closure) of parse_struct and parse_service.
MapRes(kind, r) ==
    IF r.ok THEN DefinitionOf(kind, r, InsertAll(r.val[2])) ELSE ParseErr

\* parse_struct: "struct" identifier "{" struct-field* "}"; two fields of
\* one name are an error.
parse_struct(input) ==
    LET r1 == then_tag("struct", Start(input))
        r2 == then_multispace1(r1)
        r3 == then_identifier(r2)
        r4 == then_multispace0(r3)
        r5 == then_tag("{", r4)
        r6 == then_many0("struct_field", r5)
        r7 == then_tag("}", r6)
    IN  MapRes("Struct",
               IF r1.ok /\ r2.ok /\ r3.ok /\ r4.ok /\ r5.ok /\ r6.ok
               THEN r7 ELSE ParseErr)

\* parse_service on the bytes of a definition: "service" identifier "{"
\* service-method* "}"; two methods of one name are an error.
parse_service_definition(input) ==
    LET r1 == then_tag("service", Start(input))
        r2 == then_multispace1(r1)
        r3 == then_identifier(r2)
        r4 == then_multispace0(r3)
        r5 == then_tag("{", r4)
        r6 == then_many0("method", r5)
        r7 == then_tag("}", r6)
    IN  MapRes("Service",
               IF r1.ok /\ r2.ok /\ r3.ok /\ r4.ok /\ r5.ok /\ r6.ok
               THEN r7 ELSE ParseErr)

\* alt((parse_struct, parse_service)) mapped to Definition.
parse_definition(input) ==
    Alt(parse_struct(input), parse_service_definition(input))

\* The parser many0 repeats.
Element(kind, input) ==
    CASE kind = "struct_field" -> parse_struct_field(input)
      [] kind = "parameter" -> parse_parameter(input)
      [] kind = "method" -> parse_method(input)
      [] kind = "definition" -> parse_definition(input)

\* many0 after one more try: an Err ends the repetition without error and
\* leaves the input where the element that failed began.
ManyFrom(kind, acc, first) ==
    IF ~first.ok THEN acc
    ELSE Many(kind, ParseOk(multispace0(first.rest),
                            Append(acc.val, first.val)))

Many(kind, acc) == ManyFrom(kind, acc, Element(kind, acc.rest))

\* The definitions of one kind as (name, body) pairs, in the order of the
\* file.
OfKind(definitions, kind) ==
    LET keep == SelectSeq(definitions, LAMBDA d : d.kind = kind)
    IN  [i \in 1 .. Len(keep) |-> << keep[i].name, keep[i].body >>]

\* definitions_to_interface: the structs and the services go into two maps
\* keyed by name; a second definition of a name in its map is an error.
definitions_to_interface(definitions) ==
    LET structs == InsertAll(OfKind(definitions, "Struct"))
        services == InsertAll(OfKind(definitions, "Service"))
    IN  [ok |-> structs.ok /\ services.ok,
         val |-> [structs |-> structs.map, services |-> services.map]]

\* terminated(map_res(parse_definitions, definitions_to_interface), eof):
\* the interface, when the definitions are one and nothing follows them.
Terminated(interface, end) ==
    IF interface.ok /\ end.ok THEN ParseOk(end.rest, interface.val) ELSE ParseErr

\* The result of parse_interface from the one of parse_definitions.
InterfaceOf(definitions) ==
    Terminated(definitions_to_interface(definitions.val),
               nom_eof(definitions.rest))

\* parse_interface: parse_definitions is many0_padded_by_multispace of the
\* definitions.
parse_interface(input) == InterfaceOf(Many("definition", Start(multispace0(input))))

\* ------------------------------------------------- interface files as text
\* The files are written from their definitions: a struct with its fields
\* (name, type), a service with its methods (name, parameters, return type;
\* ref says that the return type is a service reference). A type is "i32"
\* or the name of a struct.
DataTypeNames == {"i32"} \cup StructNames

\* The types the parameters and the return values are given.
SignatureTypeNames == {"i32", "Foo"}

RECURSIVE Concat(_)
Concat(parts) ==
    IF parts = << >> THEN << >> ELSE Head(parts) \o Concat(Tail(parts))

\* The text of a field, a parameter, a method and a definition; pad is the
\* whitespace written wherever the grammar allows whitespace.
RenderField(f, pad) ==
    Bytes(f.name) \o pad \o Bytes(":") \o pad \o Bytes(f.type) \o pad
        \o Bytes(",") \o pad

RenderParameter(p, pad) ==
    Bytes(",") \o pad \o Bytes(p.name) \o pad \o Bytes(":") \o pad
        \o Bytes(p.type) \o pad

RenderMethod(m, pad) ==
    Bytes(m.name) \o pad \o Bytes("(") \o pad \o Bytes("&") \o pad
        \o Bytes("self") \o pad
        \o Concat([i \in 1 .. Len(m.params) |->
                      RenderParameter(m.params[i], pad)])
        \o Bytes(")") \o pad \o Bytes("->") \o pad
        \o (IF m.ref THEN Bytes("&") \o pad \o Bytes("service") \o << 32 >>
                     ELSE << >>)
        \o Bytes(m.ret) \o pad \o Bytes(";") \o pad

RenderDefinition(d, pad) ==
    Bytes(IF d.kind = "Struct" THEN "struct" ELSE "service") \o << 32 >>
        \o Bytes(d.name) \o pad \o Bytes("{") \o pad
        \o Concat([i \in 1 .. Len(d.items) |->
                      IF d.kind = "Struct"
                      THEN RenderField(d.items[i], pad)
                      ELSE RenderMethod(d.items[i], pad)])
        \o Bytes("}") \o pad

RenderDocument(doc, pad) ==
    pad \o Concat([i \in 1 .. Len(doc) |-> RenderDefinition(doc[i], pad)])

\* The whitespace of a file written without any and of one written like the
\* file of the parser's test; what may follow the last definition.
Paddings == {<< >>, << 10, 32 >>}
Tails == {<< >>, Bytes("}")}

\* The file is being written.
Editing == parser.stage = "edit" /\ parser.items < MaxItems

LastDefinition == parser.doc[Len(parser.doc)]

\* A definition is begun: "struct Name {" or "service Name {".
WriteDefinition ==
    /\ Editing
    /\ \E kind \in {"Struct", "Service"} :
         \E name \in (IF kind = "Struct" THEN StructNames ELSE ServiceNames) :
            parser' = [parser EXCEPT
                !.doc = Append(parser.doc,
                               [kind |-> kind, name |-> name, items |-> << >>]),
                !.items = parser.items + 1]
    /\ UNCHANGED << serverVars, toServer, toClient, clientClosed, rootType,
                    nSent, clientVars, taskVars, processVars, codec,
                    expansion, collection >>

\* A field is added to the struct that is being written.
WriteField ==
    /\ Editing
    /\ parser.doc # << >> /\ LastDefinition.kind = "Struct"
    /\ \E name \in FieldNames, type \in DataTypeNames :
         parser' = [parser EXCEPT
             !.doc[Len(parser.doc)].items =
                 Append(LastDefinition.items, [name |-> name, type |-> type]),
             !.items = parser.items + 1]
    /\ UNCHANGED << serverVars, toServer, toClient, clientClosed, rootType,
                    nSent, clientVars, taskVars, processVars, codec,
                    expansion, collection >>

\* A method without parameters is added to the service that is being
\* written.
WriteMethod ==
    /\ Editing
    /\ parser.doc # << >> /\ LastDefinition.kind = "Service"
    /\ \E name \in MethodIdents, ref \in BOOLEAN :
         \E ret \in (IF ref THEN ServiceNames ELSE SignatureTypeNames) :
            parser' = [parser EXCEPT
                !.doc[Len(parser.doc)].items =
                    Append(LastDefinition.items,
                           [name |-> name, params |-> << >>, ref |-> ref,
                            ret |-> ret]),
                !.items = parser.items + 1]
    /\ UNCHANGED << serverVars, toServer, toClient, clientClosed, rootType,
                    nSent, clientVars, taskVars, processVars, codec,
                    expansion, collection >>

\* A parameter is added to the method that is being written.
WriteParameter ==
    /\ Editing
    /\ parser.doc # << >> /\ LastDefinition.kind = "Service"
    /\ LastDefinition.items # << >>
    /\ \E name \in ParamNames, type \in SignatureTypeNames :
         LET k == Len(LastDefinition.items)
         IN  parser' = [parser EXCEPT
                 !.doc[Len(parser.doc)].items[k].params =
                     Append(LastDefinition.items[k].params,
                            [name |-> name, type |-> type]),
                 !.items = parser.items + 1]
    /\ UNCHANGED << serverVars, toServer, toClient, clientClosed, rootType,
                    nSent, clientVars, taskVars, processVars, codec,
                    expansion, collection >>

\* The macro reads the file and calls parse_interface on its bytes.
ParseInterface ==
    /\ parser.stage = "edit"
    /\ \E pad \in Paddings, tail \in Tails :
         LET input == RenderDocument(parser.doc, pad) \o tail
         IN  parser' = [parser EXCEPT
                 !.stage = "parsed",
                 !.input = input,
                 !.tail = tail,
                 !.result = parse_interface(input)]
    /\ UNCHANGED << serverVars, toServer, toClient, clientClosed, rootType,
                    nSent, clientVars, taskVars, processVars, codec,
                    expansion, collection >>

InitParser ==
    /\ InitConnection({"ParentService"})
    /\ codec = NoCodec
    /\ expansion = NoExpansion
    /\ collection = NoCollection
    /\ parser = [NoParser EXCEPT !.stage = "edit"]

NextParser ==
    \/ WriteDefinition
    \/ WriteField
    \/ WriteMethod
    \/ WriteParameter
    \/ ParseInterface

SpecParser == InitParser /\ [][NextParser]_vars

\* ================================================================== claims
\* A step of Dispatch: the request in cur is served from the unprimed state.
DispatchStep == phase = "running" /\ pc = "dispatch" /\ pc' # "dispatch"

\* Some registered entry holds a parent guard over cell p.
HasRegisteredChild(map, cs, p) ==
    \E c \in RegisteredCells(map) : cs[c].parent_guard = p

\* d was created through p: p is reached from d along the parent guards.
RECURSIVE IsDescendant(_, _, _)
IsDescendant(cs, d, p) ==
    /\ d # NoCell
    /\ cs[d].parent_guard # NoCell
    /\ \/ cs[d].parent_guard = p
       \/ IsDescendant(cs, cs[d].parent_guard, p)

\* C1. Nesting safety: a CallMethod that targets a registered entry P while a
\* registered entry holds its parent guard over P is rejected: no user method
\* runs, no reply is made or sent, and the connection terminates.
C1_NestingSafety ==
    [][(/\ DispatchStep
        /\ cur.tag = "CallMethod"
        /\ active_services[cur.sid] # NoCell
        /\ HasRegisteredChild(active_services, cells, active_services[cur.sid]))
       => (/\ invoked' = NoCell
           /\ out' = NoReply
           /\ sentLog' = sentLog
           /\ phase' = "teardown"
           /\ result' = "panic"
           /\ failure' = "ServiceBusy")]_vars

\* C1 witness: a call on a parent whose child is registered was rejected.
C1_Witness ==
    /\ failure = "ServiceBusy"
    /\ cur.tag = "CallMethod"
    /\ Len(sentLog) >= 1
    /\ sentLog[Len(sentLog)].msg.kind = "Service"

\* C2. Descendant safety: no user method of an entry runs while a descendant
\* of that entry is registered.
C2_DescendantSafety ==
    [][(DispatchStep /\ invoked' # NoCell)
       => \A d \in RegisteredCells(active_services) :
              ~IsDescendant(cells, d, invoked')]_vars

\* C3. Registry parent invariant: while the connection is served, the parent
\* guarded by a registered entry is registered and its cell is locked.
C3_ParentRegisteredAndLocked ==
    phase = "running" =>
        \A c \in RegisteredCells(active_services) :
            cells[c].parent_guard # NoCell =>
                /\ cells[c].parent_guard \in RegisteredCells(active_services)
                /\ cells[cells[c].parent_guard].st = "live"
                /\ cells[cells[c].parent_guard].locked

\* C4. DropService of an entry whose lock is held by a registered child's
\* parent guard panics: the entry is not destroyed and no DropServiceDone is
\* made.
C4_DropInUsePanics ==
    [][(/\ DispatchStep
        /\ cur.tag = "DropService"
        /\ active_services[cur.sid] # NoCell
        /\ HasRegisteredChild(active_services, cells, active_services[cur.sid]))
       => (/\ result' = "panic"
           /\ out' = NoReply
           /\ cells'[active_services[cur.sid]].st = "live")]_vars

\* C5. Release order: DropService of a childless child C of a registered
\* parent P destroys C and releases P's lock before DropServiceDone is sent,
\* and the CallMethod on P that follows the reply is not rejected as busy.
C5_ReleaseOrder ==
    [][/\ (/\ DispatchStep
           /\ cur.tag = "DropService"
           /\ active_services[cur.sid] # NoCell
           /\ cells[active_services[cur.sid]].parent_guard
                  \in RegisteredCells(active_services)
           /\ ~HasRegisteredChild(active_services, cells, active_services[cur.sid]))
          => (/\ out' = DropServiceDone
              /\ pc' = "send"
              /\ sentLog' = sentLog
              /\ cells'[active_services[cur.sid]].st = "freed"
              /\ ~cells'[cells[active_services[cur.sid]].parent_guard].locked)
       /\ (/\ DispatchStep
           /\ cur.tag = "CallMethod"
           /\ Len(recvLog) >= 2
           /\ recvLog[Len(recvLog) - 1].tag = "DropService"
           /\ lastDrop.parent # NoCell
           /\ active_services[cur.sid] = lastDrop.parent)
          => failure' # "ServiceBusy"]_vars

\* C5 witness: DropServiceDone is about to be sent for a child whose parent
\* is registered and unlocked again.
C5_Witness ==
    /\ pc = "send"
    /\ out = DropServiceDone
    /\ lastDrop.parent \in RegisteredCells(active_services)
    /\ ~cells[lastDrop.parent].locked
    /\ cells[lastDrop.cell].st = "freed"

\* The reply that answers a request of the given kind.
ReplyMatches(req, rep) ==
    \/ req.tag = "DropService" /\ rep = DropServiceDone
    \/ req.tag = "CallMethod" /\ rep.tag = "MethodReturned"

\* C7. Strict request/response order: the i-th reply written answers the i-th
\* request read, a request is read only when every earlier one is answered,
\* and there is never a reply without its request.
C7_RequestResponseOrder ==
    /\ Len(sentLog) <= Len(recvLog)
    /\ Len(recvLog) <= Len(sentLog) + 1
    /\ \A i \in 1 .. Len(sentLog) :
           /\ sentLog[i].req = i
           /\ ReplyMatches(recvLog[i], sentLog[i].msg)

\* C7 witness: two requests answered, a third one read.
C7_Witness ==
    /\ Len(sentLog) = 2
    /\ Len(recvLog) = 3
    /\ sentLog[1].msg.tag = "MethodReturned"
    /\ sentLog[2].msg = DropServiceDone

C10_NoLeaks ==
    phase = "ended" =>
        /\ \A c \in CellIds : cells[c].st # "live"
        /\ RegisteredCells(active_services) = {}

\* C10 witness: a connection that registered a child ended by a panic.
C10_Witness ==
    /\ phase = "ended"
    /\ nextCell >= 2
    /\ result = "panic"

\* The value the client last wrote through a ChildService proxy before log
\* entry i, or ParentServer's default when it wrote none.
RECURSIVE LastSetUpTo(_)
LastSetUpTo(i) ==
    IF i = 0 THEN ParentDefault
    ELSE IF clientLog[i].name = "set" /\ clientLog[i].status = "ok"
    THEN clientLog[i].arg
    ELSE LastSetUpTo(i - 1)

\* The tree node a NodeService proxy stands for, by the calls that made it.
RECURSIVE NodeOf(_)
NodeOf(p) ==
    LET e == CHOOSE x \in 1 .. Len(clientLog) : clientLog[x].made = p
    IN  IF clientLog[e].name = "root" THEN 0
        ELSE TreeChildren(NodeOf(clientLog[e].proxy))[clientLog[e].arg + 1]

\* Every value returned to the client is the one the calls before it call for.
ValuesVisible ==
    \A i \in 1 .. Len(clientLog) :
        clientLog[i].status = "ok" =>
            /\ clientLog[i].name = "get" => clientLog[i].val = LastSetUpTo(i - 1)
            /\ clientLog[i].name = "set" => clientLog[i].val = clientLog[i].arg
            /\ clientLog[i].name = "get_value" =>
                   clientLog[i].val = NodeOf(clientLog[i].proxy)

AllProxiesClosed ==
    /\ nProxies >= 1
    /\ waiting.op = "none"
    /\ \A p \in 1 .. nProxies : proxies[p].is_closed

ClientWaits == waiting.op \in {"call", "close"}

C6_SessionInvariant ==
    /\ failure \in {"none", "UserPanic"}
    /\ failure = "none" =>
           /\ result \in {"none", "ok"}
           /\ \A i \in 1 .. Len(clientLog) : clientLog[i].status = "ok"
    /\ \A i \in 1 .. Len(clientLog) : clientLog[i].status \in {"ok", "err"}
    /\ ValuesVisible
    /\ AllProxiesClosed => RegisteredCells(active_services) = {}

C8_InitialId ==
    /\ [](/\ failure # "InitialIdNotZero"
          /\ (phase = "running" /\ recvLog = << >>) =>
                 /\ active_services = [NewActiveServices EXCEPT ![0] = 1]
                 /\ cells[1] = NewEntry(DefaultServer(rootType), NoCell)
          /\ nProxies >= 1 =>
                 /\ proxies[1].service_id = 0
                 /\ proxies[1].type = rootType
                 /\ ~proxies[1].is_closed \/ nSent >= 1)
    /\ [][(nProxies = 0 /\ nProxies' = 1)
          => (/\ toServer' = toServer
              /\ toClient' = toClient
              /\ nSent' = nSent
              /\ serverVars' = serverVars)]_vars

\* C8 witness: the initial service is registered under id 0 and the client's
\* initial proxy exists before anything was sent.
C8_Witness ==
    /\ phase = "running"
    /\ nProxies = 1
    /\ nSent = 0
    /\ active_services[0] = 1
    /\ proxies[1].service_id = 0

\* ------------------------------------------------------------------- C11
\* Number of DropService packets written for proxy p.
DropsSent(p) ==
    Cardinality({i \in 1 .. Len(wireLog) :
                   wireLog[i].proxy = p /\ wireLog[i].msg.tag = "DropService"})

\* A step in which task t enters close() and goes on to its send.
CloseSends(t) == tasks[t].st = "idle" /\ tasks'[t].op = "close"

\* A step in which a close() returns without having waited for anything.
CloseRefused ==
    /\ Len(clientLog') = Len(clientLog) + 1
    /\ clientLog'[Len(clientLog')].name = "close"
    /\ tasks' = tasks

\* C11. DoubleClose: for every proxy, the first close() flips the closed flag
\* from false to true and sends exactly one DropService(sid); every later
\* close() on the same proxy returns an error and sends nothing on the wire,
\* so at most one DropService is ever sent per proxy.
C11_DoubleClose ==
    /\ [](\A p \in 1 .. nProxies :
            /\ DropsSent(p) <= 1
            /\ (DropsSent(p) = 1) <=> proxies[p].is_closed)
    /\ [][\A t \in TaskIds : CloseSends(t) =>
            LET p == tasks'[t].proxy
            IN  /\ ~proxies[p].is_closed
                /\ proxies'[p].is_closed
                /\ wireLog' = Append(wireLog,
                       [proxy |-> p, msg |-> DropService(proxies[p].service_id)])]_vars
    /\ [][CloseRefused =>
            LET e == clientLog'[Len(clientLog')]
            IN  /\ proxies[e.proxy].is_closed
                /\ e.status = "err"
                /\ wireLog' = wireLog
                /\ toServer' = toServer
                /\ proxies' = proxies]_vars

\* A second close() of a proxy has returned its error while the connection
\* is up, with the one DropService of the first close() on the wire.
C11_Witness ==
    /\ phase = "running"
    /\ \E i \in 1 .. Len(clientLog) :
         /\ clientLog[i].name = "close"
         /\ clientLog[i].status = "err"
         /\ DropsSent(clientLog[i].proxy) = 1

\* ------------------------------------------------------------------- C12
\* A step in which proxy p is destroyed.
DropStep(p) == ~proxies[p].dropped /\ proxies'[p].dropped

\* C12. DropWithoutClose: destroying a proxy whose closed flag is still false
\* panics whenever the thread is not already unwinding; destroying a proxy
\* whose closed flag is true never panics.
C12_DropWithoutClose ==
    [][\A p \in 1 .. nProxies : DropStep(p) =>
         LET t == proxies[p].owner
         IN  /\ (~proxies[p].is_closed /\ tasks[t].st # "panicked") =>
                   /\ tasks'[t].st = "panicked"
                   /\ clientLog' = Append(clientLog,
                          LogEntry(p, "drop", Nil, "panic", 0, 0))
             /\ proxies[p].is_closed =>
                   /\ tasks' = tasks
                   /\ clientLog' = clientLog]_vars

\* One task has dropped a closed proxy and goes on, another has panicked on
\* dropping a proxy that was not closed.
C12_Witness ==
    /\ \E p \in 1 .. nProxies :
         /\ proxies[p].dropped /\ proxies[p].is_closed
         /\ tasks[proxies[p].owner].st = "idle"
    /\ \E i \in 1 .. Len(clientLog) :
         /\ clientLog[i].name = "drop" /\ clientLog[i].status = "panic"
         /\ ~proxies[clientLog[i].proxy].is_closed
         /\ tasks[proxies[clientLog[i].proxy].owner].st = "panicked"

\* ------------------------------------------------------------------- C13
\* A step in which a packet for proxy p is written on the wire.
WireStep(p) ==
    /\ Len(wireLog') = Len(wireLog) + 1
    /\ wireLog'[Len(wireLog')].proxy = p

C14_UnknownService ==
    [][(DispatchStep /\ get_service_entry_arc(active_services, cur.sid) = NoCell) =>
         /\ phase' = "teardown"
         /\ result' = "err"
         /\ failure' = "UnknownService"
         /\ out' = NoReply
         /\ toClient' = toClient
         /\ sentLog' = sentLog
         /\ invoked' = NoCell
         /\ active_services' = active_services
         /\ cells' = cells]_vars

\* The connection was closed for an unknown id while the registry held a
\* parent locked by its child.
C14_Witness ==
    /\ phase = "teardown"
    /\ failure = "UnknownService"
    /\ result = "err"
    /\ get_service_entry_arc(active_services, cur.sid) = NoCell
    /\ \E c \in RegisteredCells(active_services) :
          cells[c].locked /\ HasRegisteredChild(active_services, cells, c)

\* ------------------------------------------------------------------- C15
\* C15. UserFailure: when the user's method body returns Err(e), the
\* generated handler hands it back to the dispatch loop as an I/O error
\* result (not a panic); the dispatcher logs it, sends no MethodReturned for
\* that request and terminates the connection.
C15_UserFailure ==
    [][(DispatchStep /\ failure' = "UserFailure") =>
         /\ result' = "err"
         /\ out' = NoReply
         /\ toClient' = toClient
         /\ phase' = "teardown"]_vars

\* ------------------------------------------------------------------- C16
\* The server takes a packet that is not a ClientMessage from its socket.
ReadsMalformed ==
    /\ phase = "running" /\ pc = "read"
    /\ toServer # << >> /\ Head(toServer) = MalformedPacket
    /\ pc' # pc

\* Task t takes a packet that is not a ServerMessage from the channel.
ReceivesMalformed(t) ==
    /\ tasks[t].st = "sent"
    /\ toClient # << >> /\ Head(toClient) = MalformedReply
    /\ toClient' = Tail(toClient)

\* C16. Malformed frame: a packet that does not decode to a ClientMessage
\* makes the server terminate the connection without invoking any handler,
\* without sending a reply and without changing the registry before teardown;
\* a packet that does not decode to a ServerMessage is surfaced to the client
\* call as an error.
C16_MalformedFrame ==
    /\ [][ReadsMalformed =>
            /\ phase' = "teardown"
            /\ result' = "err"
            /\ failure' = "Malformed"
            /\ invoked' = NoCell
            /\ out' = NoReply
            /\ toClient' = toClient
            /\ sentLog' = sentLog
            /\ recvLog' = recvLog
            /\ active_services' = active_services
            /\ next_service_id' = next_service_id
            /\ cells' = cells]_vars
    /\ [][\A t \in TaskIds : ReceivesMalformed(t) =>
            /\ tasks'[t].st = "idle"
            /\ Len(clientLog') = Len(clientLog) + 1
            /\ clientLog'[Len(clientLog')].status = "err"
            /\ clientLog'[Len(clientLog')].proxy = tasks[t].proxy
            /\ proxies' = proxies]_vars

\* A call got an error for a corrupted reply while the server was up, and the
\* server then ended the connection on a corrupted request.
C16_Witness ==
    /\ failure = "Malformed"
    /\ phase = "teardown"
    /\ tasks[1].st = "sent"
    /\ Len(clientLog) >= 1
    /\ clientLog[1].status = "err"
    /\ clientLog[1].name # "close"

\* ------------------------------------------------------------------- C17
\* The first connection has met a fatal condition.
Fatal == phase \in {"teardown", "ended", "aborted"}

\* C17. Connection isolation: each accepted connection has its own registry
\* and its own fresh initial service; a fatal condition on one connection
\* (error return or panic in its task) terminates only that connection,
\* leaves the registry, locks and replies of every other connection
\* unchanged, and does not stop the accept loop.
C17_ConnectionIsolation ==
    /\ [][(conn2.phase = "none" /\ conn2'.phase = "running") =>
             /\ conn2'.map = [NewActiveServices EXCEPT ![0] = 1]
             /\ conn2'.cells[1] = NewEntry(DefaultServer(rootType), NoCell)
             /\ serverVars' = serverVars]_vars
    /\ [][serverVars' # serverVars => conn2' = conn2 /\ listening' = listening]_vars
    /\ [][Fatal =>
             /\ listening' = listening
             /\ conn2.phase = "running" =>
                  /\ conn2'.phase = "running"
                  /\ Len(conn2'.replies) = Len(conn2.replies) =>
                        conn2' = conn2]_vars
    /\ [](Fatal => listening)

\* ------------------------------------------------------------------- C18
\* A step in which the operation of task t takes a reply from the channel.
Receives(t) ==
    /\ tasks[t].st = "sent"
    /\ tasks'[t].st # "sent"
    /\ toClient # << >>
    /\ toClient' = Tail(toClient)

\* The position in sentLog of the reply at the head of the client's socket.
HeadReply == Len(sentLog) - Len(toClient) + 1

\* C18. Single outstanding call per connection on the client: the channel
\* lock is held from sending a request until its reply has been received, so
\* when several tasks call or close proxies of the same connection
\* concurrently their exchanges are serialized and each caller receives the
\* reply to its own request, never another caller's.
C18_ChannelLock ==
    /\ [](\A t \in TaskIds : tasks[t].st = "sent" => stream_sink = t)
    /\ [](Cardinality({t \in TaskIds : tasks[t].st = "sent"}) <= 1)
    /\ [][\A t \in TaskIds : Receives(t) =>
            LET w == tasks[t]
            IN  /\ wireLog[w.seq].proxy = w.proxy
                /\ recvLog[w.seq] = wireLog[w.seq].msg
                /\ sentLog[HeadReply].req = w.seq
                /\ sentLog[HeadReply].msg = Head(toClient)
                /\ ReplyMatches(wireLog[w.seq].msg, Head(toClient))
                /\ stream_sink' = 0]_vars

\* Operations of proxies of two different tasks have both returned a value.
C18_Witness ==
    \E i, j \in 1 .. Len(clientLog) :
       /\ i < j
       /\ clientLog[i].status = "ok" /\ clientLog[j].status = "ok"
       /\ proxies[clientLog[i].proxy].owner # proxies[clientLog[j].proxy].owner

\* ------------------------------------------------------------------- C19
\* The server has left the connection and nothing it wrote is left to read.
ConnectionGone ==
    /\ phase \in {"teardown", "ended", "aborted"}
    /\ toClient = << >>

\* C19. ConnectionClosed: if the connection is closed while a proxy method
\* call or close() is waiting for its reply, the operation returns an error
\* to the caller; it neither panics nor waits forever.
C19_ConnectionClosed ==
    /\ [][\A t \in TaskIds :
            (tasks[t].st = "sent" /\ ConnectionGone /\ tasks'[t] # tasks[t]) =>
               /\ tasks'[t].st = "idle"
               /\ clientLog' = Append(clientLog,
                      LogEntry(tasks[t].proxy, tasks[t].name, tasks[t].arg,
                               "err", 0, 0))
               /\ proxies' = proxies]_vars
    /\ \A t \in TaskIds :
          (tasks[t].st = "sent" /\ ConnectionGone) ~> (tasks[t].st = "idle")

\* A method call and a close() have both returned an error because the
\* server had closed the connection.
C19_Witness ==
    /\ ConnectionGone
    /\ \E i, j \in 1 .. Len(clientLog) :
          /\ clientLog[i].status = "err" /\ clientLog[i].name # "close"
          /\ clientLog[j].status = "err" /\ clientLog[j].name = "close"
          /\ DropsSent(clientLog[j].proxy) = 1
          /\ \A k \in 1 .. Len(clientLog) :
                (k # j /\ clientLog[k].name = "close") =>
                    clientLog[k].proxy # clientLog[j].proxy

\* ------------------------------------------------------------------- C20
\* Task t, inside operation op of a method returning ret, takes reply h.
Takes(t, op, h) ==
    /\ tasks[t].st = "sent" /\ tasks[t].op = op
    /\ toClient # << >> /\ Head(toClient) = h
    /\ toClient' = Tail(toClient)

\* The operation of task t panics and hands nothing to its caller.
Panics(t) ==
    /\ tasks'[t].st = "panicked"
    /\ clientLog' = Append(clientLog,
           LogEntry(tasks[t].proxy, tasks[t].name, tasks[t].arg, "panic", 0, 0))
    /\ proxies' = proxies
    /\ nProxies' = nProxies

\* The return type of the method task t is in.
TaskRet(t) == RetOf(proxies[tasks[t].proxy].type, tasks[t].name)

\* C20. Client-side protocol violation: a proxy method call that receives
\* DropServiceDone, a close() that receives MethodReturned, a data-returning
\* call that receives Service(id) and a service-returning call that receives
\* Data(bytes) all panic; none of them returns a value or a new proxy to the
\* caller.
C20_ProtocolViolation ==
    [][\A t \in TaskIds :
         /\ Takes(t, "call", DropServiceDone) => Panics(t)
         /\ \A h \in {MethodReturnedData(0), MethodReturnedService(1)} :
               /\ Takes(t, "close", h) => Panics(t)
               /\ (Takes(t, "call", h) /\ TaskRet(t) = "i32" /\ h.kind = "Service")
                     => Panics(t)
               /\ (Takes(t, "call", h) /\ TaskRet(t) # "i32" /\ h.kind = "Data")
                     => Panics(t)]_vars

\* A data-returning call has panicked on a reply while the server was up and
\* had answered it.
C20_Witness ==
    /\ tasks[1].st = "panicked"
    /\ phase = "running"
    /\ Len(clientLog) >= 1
    /\ clientLog[Len(clientLog)].status = "panic"
    /\ clientLog[Len(clientLog)].name \in {"get", "get_value"}
    /\ Len(sentLog) = Len(wireLog)


C22_DeclarationOrder ==
    expansion.stage = "expanded" =>
        \A k \in 1 .. Len(expansion.decl) :
            /\ expansion.stub[expansion.decl[k]] = k - 1
            /\ expansion.handler[k] = expansion.decl[k]


\* A call of register_service that returned.
RegisterStep ==
    /\ collection'.op = "register"
    /\ collection'.registered = collection.registered + 1

\* C23: unique live ids. register_service never returns an id that is in
\* the registry at that moment, also after the counter has wrapped around:
\* the id it returns was vacant, every other id keeps the entry it had, and
\* no two ids ever hold the same entry.
C23_UniqueLiveIds ==
    /\ [][RegisterStep =>
            /\ collection.active_services[collection'.id] = NoCell
            /\ collection'.active_services[collection'.id]
                 = collection'.registered
            /\ \A i \in Ids \ {collection'.id} :
                 collection'.active_services[i] = collection.active_services[i]]_vars
    /\ [](\A i, j \in LiveIds(collection.active_services) :
            i # j => collection.active_services[i] # collection.active_services[j])

\* A registration after the counter wrapped around, next to two live entries.
C23_Witness ==
    /\ collection.op = "register"
    /\ collection.registered > IdMod
    /\ collection.id < collection.from
    /\ Cardinality(LiveIds(collection.active_services)) >= 3

\* C24, as stated: an id that was handed out and then removed is not handed
\* out again by any of the next 2^w - 1 registrations (IdMod = 2^w).
C24_NoEarlyReuse ==
    [][(RegisterStep /\ collection.since[collection'.id] >= 0) =>
          collection.since[collection'.id] + 1 > IdMod - 1]_vars

\* C24, amended: an id that was handed out and then removed is handed out
\* again only after the counter has wrapped all the way around, that is
\* after every other id was handed out or skipped as registered since the
\* id was last handed out. The skipped ids are no registrations, so the
\* number of registrations in between can be anything from 0 to 2^w - 1.
C24_ReuseAfterWrap ==
    [][(RegisterStep /\ collection.since[collection'.id] >= 0) =>
          /\ collection.seen[collection'.id] = Ids
          /\ collection.registered >= IdMod]_vars

\* An id is handed out again, fewer than 2^w - 1 registrations after its
\* removal, by a registration that skipped a registered id.
C24_Witness ==
    /\ collection.op = "register"
    /\ collection.after >= 0
    /\ collection.after < IdMod - 1
    /\ collection.id # collection.from

\* C27: allocator result. register_service returns the first id, in cyclic
\* order from the counter's value and wrapping from the largest id to 0,
\* that is not in the registry; the counter is left just after it, and every
\* id registered before still resolves to its entry.
C27_AllocatorResult ==
    [][RegisterStep =>
          LET map == collection.active_services
              n == collection.next_service_id
              id == collection'.id
              d == (id - n + IdMod) % IdMod
          IN  /\ map[id] = NoCell
              /\ \A j \in 0 .. (d - 1) : map[(n + j) % IdMod] # NoCell
              /\ collection'.next_service_id = (id + 1) % IdMod
              /\ \A i \in LiveIds(map) :
                   collection'.active_services[i] = map[i]]_vars

\* The counter stood at the largest id, which was registered like id 0: the
\* new service got id 1, and the entries of the other ids are the old ones.
C27_Witness ==
    /\ collection.op = "register"
    /\ collection.from = IdMod - 1
    /\ collection.id = 1
    /\ collection.active_services[0] = 1
    /\ collection.active_services[IdMod - 1] = IdMod


\* The step of Dispatch that serves a CallMethod and makes a Data reply.
DataReturned ==
    /\ DispatchStep
    /\ cur.tag = "CallMethod"
    /\ out'.tag = "MethodReturned"
    /\ out'.kind = "Data"

\* The request before cur was a CallMethod on the same id, and it was
\* answered with Data.
AfterDataCall ==
    /\ Len(recvLog) >= 2
    /\ recvLog[Len(recvLog) - 1].tag = "CallMethod"
    /\ recvLog[Len(recvLog) - 1].sid = cur.sid
    /\ sentLog # << >>
    /\ sentLog[Len(sentLog)].req = Len(recvLog) - 1
    /\ sentLog[Len(sentLog)].msg.kind = "Data"

\* C25: a data-returning call releases the entry's lock before the reply is
\* sent. When Dispatch has made the Data reply of a CallMethod on S, nothing
\* has been sent for it yet and S is unlocked; so a CallMethod on S that
\* follows a data-returning call on S finds S registered and is never
\* rejected as busy, however many such calls follow one another.
C25_DataCallReleasesLock ==
    [][/\ DataReturned
          => (/\ invoked' = active_services[cur.sid]
              /\ ~cells'[invoked'].locked
              /\ pc' = "send"
              /\ sentLog' = sentLog)
       /\ (DispatchStep /\ cur.tag = "CallMethod" /\ AfterDataCall)
          => (/\ active_services[cur.sid] # NoCell
              /\ ~cells[active_services[cur.sid]].locked
              /\ failure' \notin {"ServiceBusy", "UnknownService"})]_vars

\* The third of three data-returning calls in a row on one service is about
\* to be answered.
C25_Witness ==
    /\ pc = "send"
    /\ out.kind = "Data"
    /\ Len(recvLog) = 3
    /\ \A i \in 1 .. 3 : recvLog[i].tag = "CallMethod" /\ recvLog[i].sid = cur.sid
    /\ Len(sentLog) = 2
    /\ \A i \in 1 .. 2 : sentLog[i].msg.kind = "Data"
    /\ ~cells[invoked].locked


\* The registered entries whose parent guard is a lock of cell c.
DirectChildren(map, cs, c) ==
    {d \in RegisteredCells(map) : cs[d].parent_guard = c}

\* The server is between two requests.
BetweenRequests == phase = "running" /\ pc = "read"

\* C26: lock/child correspondence. Whenever the server is between two
\* requests, a registered entry is locked iff some registered entry holds a
\* parent guard over it, and it has at most one such direct child; a
\* service-returning call stores the lock it took as the parent guard of the
\* new child, and that lock stays held as long as the child is registered
\* and is released when the child is destroyed.
C26_LockChildCorrespondence ==
    /\ [](BetweenRequests =>
            \A c \in RegisteredCells(active_services) :
                /\ cells[c].locked
                     <=> DirectChildren(active_services, cells, c) # {}
                /\ Cardinality(DirectChildren(active_services, cells, c)) <= 1)
    /\ [][(DispatchStep /\ nextCell' # nextCell) =>
            /\ cells'[nextCell'].parent_guard = invoked'
            /\ invoked' = active_services[cur.sid]
            /\ cells'[invoked'].locked]_vars
    /\ [][phase' = "running" =>
            \A d \in RegisteredCells(active_services) :
                cells[d].parent_guard # NoCell =>
                    IF d \in RegisteredCells(active_services')
                    THEN /\ cells'[cells[d].parent_guard].st = "live"
                         /\ cells'[cells[d].parent_guard].locked
                    ELSE ~cells'[cells[d].parent_guard].locked]_vars

\* C28: frame of a data-returning call. A CallMethod that is answered with
\* Data leaves the registry's ids and their entries, the counter, and every
\* entry's parent guard, lock state and existence as they were; only the
\* value held by the user's server object changes, in the called entry or in
\* the entry its server object borrows from. In particular the lookup of the
\* entry leaves no lock behind.
C28_DataCallFrame ==
    [][DataReturned =>
          /\ active_services' = active_services
          /\ next_service_id' = next_service_id
          /\ nextCell' = nextCell
          /\ \A c \in CellIds :
               /\ cells'[c].parent_guard = cells[c].parent_guard
               /\ cells'[c].locked = cells[c].locked
               /\ cells'[c].st = cells[c].st
               /\ cells'[c].type = cells[c].type
               /\ cells'[c].ref = cells[c].ref
               /\ cells'[c].val # cells[c].val
                    => c \in {invoked', cells[invoked'].ref}]_vars

\* ChildService::set has been served: the value of the parent's server
\* object changed, the parent is still locked by the child's guard.
C28_Witness ==
    /\ pc = "send"
    /\ out.kind = "Data"
    /\ cells[invoked].type = "ChildService"
    /\ cells[invoked].parent_guard # NoCell
    /\ cells[cells[invoked].parent_guard].locked
    /\ cells[cells[invoked].ref].val # ParentDefault
    /\ ~cells[invoked].locked

\* The step of Dispatch that serves a DropService and makes DropServiceDone.
DropDone ==
    /\ DispatchStep
    /\ cur.tag = "DropService"
    /\ out' = DropServiceDone

\* C29: frame of DropService. A DropService(sid) that is answered with
\* DropServiceDone removes the entry of sid and destroys it; every other id
\* keeps its entry, the counter is unchanged, and the only other entry that
\* changes is the one sid's parent guard locked: its lock is released.
C29_DropServiceFrame ==
    [][DropDone =>
          LET c == active_services[cur.sid]
              p == cells[c].parent_guard
          IN  /\ c # NoCell
              /\ active_services' = [active_services EXCEPT ![cur.sid] = NoCell]
              /\ next_service_id' = next_service_id
              /\ nextCell' = nextCell
              /\ cells'[c].st = "freed"
              /\ \A d \in CellIds \ {c, p} : cells'[d] = cells[d]
              /\ (p # NoCell /\ cells[p].st = "live")
                   => cells'[p] = [cells[p] EXCEPT !.locked = FALSE]]_vars

\* DropServiceDone is about to be sent for a child: its parent, locked until
\* then, is registered and unlocked.
C29_Witness ==
    /\ pc = "send"
    /\ out = DropServiceDone
    /\ lastDrop.parent \in RegisteredCells(active_services)
    /\ cells[lastDrop.cell].st = "freed"
    /\ ~cells[lastDrop.parent].locked
    /\ recvLog[Len(recvLog)].tag = "DropService"
    /\ active_services[recvLog[Len(recvLog)].sid] = NoCell


\* The last reply sent answers the last request read.
Answered ==
    /\ sentLog # << >>
    /\ sentLog[Len(sentLog)].req = Len(recvLog)

\* C30: the dispatcher never waits for an entry's lock. A CallMethod on an
\* entry whose lock is held fails in the step that serves it, with nothing
\* changed in the registry; every request passes from dispatch to one send
\* or to the end of the connection, no request is answered twice, and every
\* request that is read leads to its reply or to the end of the connection.
C30_NeverWaitsForLock ==
    /\ [][(/\ DispatchStep
           /\ cur.tag = "CallMethod"
           /\ active_services[cur.sid] # NoCell
           /\ cells[active_services[cur.sid]].locked)
          => (/\ failure' = "ServiceBusy"
              /\ result' = "panic"
              /\ phase' = "teardown"
              /\ out' = NoReply
              /\ cells' = cells
              /\ active_services' = active_services)]_vars
    /\ [][(phase = "running" /\ pc = "send" /\ pc' # "send")
          => (/\ pc' = "read"
              /\ sentLog' = Append(sentLog, [msg |-> out, req |-> Len(recvLog)])
              /\ ~Answered)]_vars
    /\ [](\A i, j \in 1 .. Len(sentLog) : i < j => sentLog[i].req < sentLog[j].req)
    /\ (phase = "running" /\ pc = "dispatch")
          ~> (phase # "running" \/ (pc = "read" /\ Answered))

\* A call on a service whose lock a child holds was refused at once, after
\* the call that created the child had been answered.
C30_Witness ==
    /\ failure = "ServiceBusy"
    /\ result = "panic"
    /\ Len(recvLog) = 2
    /\ Len(sentLog) = 1
    /\ sentLog[1].msg.kind = "Service"
    /\ recvLog[2].sid = recvLog[1].sid


\* ---------------------------------------------------------------------- C31
\* C31: the lock of the registry's map is held in no reachable state, so at
\* no suspension point of the connection task and by no two operations at
\* once: every register_service, get_service_entry_arc and
\* remove_service_entry_arc finds it free, and no connection ends with the
\* panic of a failed try_lock() on it.
C31_IndexLockFree ==
    /\ ~index_lock
    /\ failure # "IndexLockFailed"

\* The registry has served a registration at accept, a lookup and a
\* registration for a call that returned a service, and a removal, and the
\* reply to the removal is about to be sent.
C31_Witness ==
    /\ pc = "send"
    /\ out = DropServiceDone
    /\ \E i \in 1 .. Len(sentLog) : sentLog[i].msg.kind = "Service"
    /\ ~index_lock


\* ---------------------------------------------------------------------- C32
\* The ids the server has returned to the client in MethodReturned(Service).
ReturnedIds ==
    {sentLog[i].msg.val : i \in {j \in 1 .. Len(sentLog) :
                                   sentLog[j].msg.tag = "MethodReturned"
                                   /\ sentLog[j].msg.kind = "Service"}}

\* The ids of the client's proxies that have not been closed.
UnclosedProxyIds ==
    {proxies[p].service_id : p \in {q \in 1 .. nProxies : ~proxies[q].is_closed}}

\* The connection is served, its task waits for the next request, no packet
\* is on its way in either direction and no proxy operation is running.
NoRequestInFlight ==
    /\ phase = "running" /\ pc = "read"
    /\ toServer = << >> /\ toClient = << >>
    /\ nProxies >= 1
    /\ waiting.op = "none"

\* C32: while the connection task waits for a request, every id in the
\* registry is 0 or an id the server returned in a MethodReturned(Service)
\* reply; and for a client that follows the proxy discipline, whenever no
\* request is in flight the ids of the unclosed proxies are exactly the ids
\* in the registry.
C32_CapabilityCorrespondence ==
    /\ (phase = "running" /\ pc = "read")
         => LiveIds(active_services) \subseteq ({0} \cup ReturnedIds)
    /\ NoRequestInFlight => UnclosedProxyIds = LiveIds(active_services)

\* No request is in flight, the client holds the initial proxy and the proxy
\* of a service returned to it, and has closed another proxy before.
C32_Witness ==
    /\ NoRequestInFlight
    /\ Cardinality(UnclosedProxyIds) = 2
    /\ \E p \in 1 .. nProxies : proxies[p].is_closed
    /\ UnclosedProxyIds = LiveIds(active_services)


InvalidMethodCall ==
    /\ cur.tag = "CallMethod"
    /\ active_services[cur.sid] # NoCell
    /\ cur.mid >= Len(Interface(cells[active_services[cur.sid]].type))

\* C34: a CallMethod whose method id is not defined for the type of the
\* target service terminates the connection (the task panics); no user
\* method is invoked (no service's state changes, nothing is registered),
\* no reply is made for it, and nothing is sent once the connection is
\* terminated.
C34_InvalidMethodId ==
    /\ [][(DispatchStep /\ InvalidMethodCall) =>
            /\ phase' = "teardown"
            /\ result' = "panic"
            /\ failure' \in {"InvalidMethodId", "ServiceBusy"}
            /\ invoked' = NoCell
            /\ out' = NoReply
            /\ active_services' = active_services
            /\ nextCell' = nextCell
            /\ \A c \in DOMAIN cells :
                 /\ cells'[c].val = cells[c].val
                 /\ cells'[c].st = cells[c].st]_vars
    /\ [][phase # "running" => (sentLog' = sentLog /\ toClient' = toClient)]_vars

\* A CallMethod with an undefined method id, sent after a call that was
\* answered, has ended the connection with the handler's panic.
C34_Witness ==
    /\ failure = "InvalidMethodId"
    /\ result = "panic"
    /\ Len(recvLog) >= 2
    /\ recvLog[Len(recvLog)].tag = "CallMethod"
    /\ Len(sentLog) = Len(recvLog) - 1


\* ---------------------------------------------------------------------- C35
\* close() on proxy p has returned Ok(()) to its caller.
ClosedSuccessfully(p) ==
    \E j \in 1 .. Len(clientLog) :
       /\ clientLog[j].proxy = p
       /\ clientLog[j].name = "close"
       /\ clientLog[j].status = "ok"

\* C35: no use after close. Once close() on a proxy has returned
\* successfully, no later step writes a CallMethod or a DropService of that
\* proxy (carrying its service id) on the connection.
C35_NoUseAfterClose ==
    [][\A i \in (Len(wireLog) + 1) .. Len(wireLog') :
          ClosedSuccessfully(wireLog'[i].proxy) =>
             wireLog'[i].msg.sid # proxies[wireLog'[i].proxy].service_id]_vars


\* ---------------------------------------------------------------------- C36
\* A close() on proxy p has sent its DropService and waits for the reply.
CloseInProgress(p) ==
    \E t \in TaskIds :
       tasks[t].st = "sent" /\ tasks[t].op = "close" /\ tasks[t].proxy = p

\* C36: closed implies released. Whenever a proxy's is_closed flag is true
\* and no close() on it is in progress, a close() on it has received
\* DropServiceDone (the server has removed the entry of its id); so a
\* close() whose exchange fails does not leave the proxy marked closed.
C36_ClosedImpliesReleased ==
    \A p \in 1 .. nProxies :
       (proxies[p].is_closed /\ ~CloseInProgress(p)) => ClosedSuccessfully(p)


\* ---------------------------------------------------------------------- C37
\* The DataType a written type name stands for.
DataTypeOf(name) == IF name = "i32" THEN I32 ELSE StructType(Bytes(name))

\* The Struct and the Service a written definition declares: the fields of a
\* struct by name, the methods of a service by name, each method with its
\* parameters in the order they were written.
DeclaredBody(d) ==
    IF d.kind = "Struct"
    THEN {<< Bytes(d.items[i].name), DataTypeOf(d.items[i].type) >> :
             i \in 1 .. Len(d.items)}
    ELSE {<< Bytes(d.items[i].name),
             [non_self_params |->
                  [k \in 1 .. Len(d.items[i].params) |->
                      << Bytes(d.items[i].params[k].name),
                         DataTypeOf(d.items[i].params[k].type) >>],
              return_type |->
                  IF d.items[i].ref THEN ServiceRef(Bytes(d.items[i].ret))
                  ELSE Data(DataTypeOf(d.items[i].ret))] >> :
             i \in 1 .. Len(d.items)}

\* The interface a written file declares.
DeclaredInterface(doc) ==
    [structs |-> {<< Bytes(doc[i].name), DeclaredBody(doc[i]) >> :
                     i \in {j \in 1 .. Len(doc) : doc[j].kind = "Struct"}},
     services |-> {<< Bytes(doc[i].name), DeclaredBody(doc[i]) >> :
                      i \in {j \in 1 .. Len(doc) : doc[j].kind = "Service"}}]

\* Two definitions of one kind and name, or two members of one name in a
\* definition.
DuplicateDefinitions(doc) ==
    \E i, j \in 1 .. Len(doc) :
       i # j /\ doc[i].kind = doc[j].kind /\ doc[i].name = doc[j].name

DuplicateMembers(doc, kind) ==
    \E i \in 1 .. Len(doc) :
       /\ doc[i].kind = kind
       /\ \E k, l \in 1 .. Len(doc[i].items) :
             k # l /\ doc[i].items[k].name = doc[i].items[l].name

HasDuplicate(doc) ==
    \/ DuplicateDefinitions(doc)
    \/ DuplicateMembers(doc, "Struct")
    \/ DuplicateMembers(doc, "Service")

\* C37: interface parsing. For a well-formed interface document (written by
\* the grammar, no name declared twice, nothing after the last definition)
\* parse_interface consumes the whole input and returns every declared
\* struct and service under its name, each struct with its fields and their
\* types, each method with its non-self parameters in declaration order and
\* its return type; and input left after the definitions makes the parse
\* fail.
C37_InterfaceParsing ==
    parser.stage = "parsed" =>
       /\ (parser.tail = << >> /\ ~HasDuplicate(parser.doc)) =>
             /\ parser.result.ok
             /\ parser.result.rest = << >>
             /\ parser.result.val = DeclaredInterface(parser.doc)
       /\ parser.tail # << >> => ~parser.result.ok


\* ---------------------------------------------------------------------- C38
\* C38: duplicate names are rejected. A document with two structs of one
\* name, two services of one name, two fields of one name in a struct or two
\* methods of one name in a service makes parse_interface fail.
C38_DuplicatesRejected ==
    (parser.stage = "parsed" /\ HasDuplicate(parser.doc)) => ~parser.result.ok

\* A file whose only flaw is a service with two methods of one name has been
\* parsed, and refused.
C38_Witness ==
    /\ parser.stage = "parsed"
    /\ parser.tail = << >>
    /\ ~DuplicateDefinitions(parser.doc)
    /\ ~DuplicateMembers(parser.doc, "Struct")
    /\ DuplicateMembers(parser.doc, "Service")
    /\ \A i \in 1 .. Len(parser.doc) :
          parser.doc[i].kind = "Struct" =>
             \A k \in 1 .. Len(parser.doc[i].items) :
                parser.doc[i].items[k].type # "i32x"
    /\ ~parser.result.ok
====
